---- MODULE Spec2Model ----
(***************************************************************************)
(* Model of the image-to-3D reconstruction pipeline of the AniMate backend *)
(* (backend/models/two_d_to_three_d): the orchestrator                     *)
(* TwoDToThreeDConverter, the neural backend TripoSRConverter, the depth   *)
(* backend DepthEstimator and the mesh builder / exporter MeshGenerator.   *)
(*                                                                         *)
(* Python values are modelled as follows.                                  *)
(*   - None is the record [py |-> "None"]; an object is a record of its    *)
(*     fields.                                                             *)
(*   - A dict is a record whose DOMAIN is the set of keys it holds, so a   *)
(*     missing key is a missing field.                                     *)
(*   - A path is a sequence of tokens; an extension is one token ".ext",   *)
(*     so str.replace('.glb', '.ply') is a map over the tokens.            *)
(*   - A raised exception is the record [raised |-> TRUE, msg |-> str(e)]. *)
(*   - What an external library (TripoSR, torch, open3d, trimesh, PIL)     *)
(*     does is chosen by the environment: it succeeds or it raises.        *)
(***************************************************************************)
EXTENDS Integers, Sequences, FiniteSets

VARIABLES
    use_triposr,        \* TwoDToThreeDConverter.use_triposr
    _initialized,       \* TwoDToThreeDConverter._initialized
    triposr_converter,  \* TwoDToThreeDConverter.triposr_converter
    depth_estimator,    \* TwoDToThreeDConverter.depth_estimator
    mesh_generator,     \* TwoDToThreeDConverter.mesh_generator
    OPEN3D_AVAILABLE,   \* mesh_generator.OPEN3D_AVAILABLE
    TRIMESH_AVAILABLE,  \* mesh_generator.TRIMESH_AVAILABLE
    files,              \* the paths that exist on disk
    input_image,        \* what the input file holds
    result,             \* the value the last call returned
    call,               \* the last call: operation, arguments, steps it ran
    job_format,         \* the format the convert calls of this behaviour ask for
    mesh,               \* the value the last MeshGenerator call returned
    first_placeholder,  \* the first placeholder depth map that was returned
    loads,              \* the model loads the convert calls of a series made
    _converter_instance,\* ConversionService._converter_instance: None, or a
                        \* reference into instances
    instances,          \* the orchestrators get_converter has constructed
    requests            \* the request threads in flight: position and locals

vars == <<use_triposr, _initialized, triposr_converter, depth_estimator,
          mesh_generator, OPEN3D_AVAILABLE, TRIMESH_AVAILABLE, files,
          input_image, result, call, job_format, mesh, first_placeholder,
          loads, _converter_instance, instances, requests>>

orchestratorVars == <<use_triposr, _initialized, triposr_converter,
                      depth_estimator, mesh_generator, files>>

environmentVars == <<OPEN3D_AVAILABLE, TRIMESH_AVAILABLE, input_image,
                     job_format>>

singletonVars == <<_converter_instance, instances, requests>>

None == [py |-> "None"]

-----------------------------------------------------------------------------
(* Bounds of the model.                                                    *)

\* images are 1..MaxDim pixels wide and high in the orchestrator model
MaxDim == 2
\* depth maps are 1..MaxGridDim wide and high in the mesh model
MaxGridDim == 6
\* point clouds handed directly to a mesh rung hold 0..MaxPoints points
MaxPoints == 20
\* images and raw maps handed to the depth estimator hold 1..MaxPixels pixels
MaxPixels == 4

-----------------------------------------------------------------------------
(* Grid triangulation: mesh_generator.py                                   *)

\* int(np.sqrt(n)): the integer part of the square root
IntSqrt(n) == CHOOSE r \in 0..n : r * r <= n /\ (r + 1) * (r + 1) > n

\* the quads of row i with the loop running to range(width)
RECURSIVE QuadRowInclusive(_, _, _)
QuadRowInclusive(i, j, width) ==
    IF j >= width THEN <<>>
    ELSE LET idx == i * width + j
         IN  << <<idx, idx + 1, idx + width>>,
                <<idx + 1, idx + width + 1, idx + width>> >>
             \o QuadRowInclusive(i, j + 1, width)

\* for j in range(width - 1): the two triangles of quad (i, j)
RECURSIVE QuadRow(_, _, _)
QuadRow(i, j, width) ==
    IF j >= width - 1 THEN <<>>
    ELSE LET idx == i * width + j
         IN  << <<idx, idx + 1, idx + width>>,
                <<idx + 1, idx + width + 1, idx + width>> >>
             \o QuadRow(i, j + 1, width)

\* for i in range(height - 1): the rows of quads
RECURSIVE QuadRows(_, _, _)
QuadRows(i, height, width) ==
    IF i >= height - 1 THEN <<>>
    ELSE QuadRow(i, 0, width) \o QuadRows(i + 1, height, width)

\* height = int(np.sqrt(len(points)))
GridHeight(n) == IntSqrt(n)

\* width = len(points) // height  (ZeroDivisionError when height = 0)
GridWidth(n) == n \div GridHeight(n)

\* the faces list both grid rungs build from a point cloud of n points
GridFaces(n) == QuadRows(0, GridHeight(n), GridWidth(n))

Raised(m) == [raised |-> TRUE, msg |-> m]

IsRaised(v) == "raised" \in DOMAIN v

\* MeshGenerator._create_placeholder_mesh(points, colors), len(points) = n
_create_placeholder_mesh(n) ==
    IF GridHeight(n) = 0 THEN Raised("integer division or modulo by zero")
    ELSE [vertices     |-> n,
          faces        |-> GridFaces(n),
          vertex_count |-> n,
          face_count   |-> Len(GridFaces(n)),
          library      |-> "placeholder"]

\* quality_settings.get(quality, quality_settings['medium']); the ratios are
\* kept in tenths
quality_settings(quality) ==
    CASE quality = "low"  -> [depth_scale |-> 3,  simplify |-> 3]
      [] quality = "high" -> [depth_scale |-> 10, simplify |-> 8]
      [] OTHER            -> [depth_scale |-> 5,  simplify |-> 5]

\* the <<vertex count, face count>> of the meshes a geometry library hands
\* back when it succeeds; the libraries are taken to return no empty mesh
LibraryMeshes == {<<8, 12>>}

\* what a geometry library does in one call: it raises, or it returns a mesh
\* of v vertices and f faces
LibOutcomes ==
    {[ok |-> FALSE, v |-> 0, f |-> 0]}
    \cup {[ok |-> TRUE, v |-> c[1], f |-> c[2]] : c \in LibraryMeshes}

\* the pixels of an image of one colour, as Image.new makes it
Solid(level) == [kind |-> "solid", level |-> level]

\* the pixels of an image given one by one in row-major order
Pixels(levels) == [kind |-> "array", levels |-> levels]

\* the gray level of pixel k of an image
PixelAt(image, k) ==
    IF image.pixels.kind = "solid" THEN image.pixels.level
    ELSE image.pixels.levels[k]

\* image.resize((width, height)): the pixels are resampled, here from the
\* nearest source pixel (exact for an image of one colour)
resize(image, width, height) ==
    [image EXCEPT
        !.width  = width,
        !.height = height,
        !.pixels =
            IF image.pixels.kind = "solid" THEN image.pixels
            ELSE Pixels([k \in 1..(width * height) |->
                            LET row == (k - 1) \div width
                                col == (k - 1) % width
                                r0  == (row * image.height) \div height
                                c0  == (col * image.width) \div width
                            IN  PixelAt(image, r0 * image.width + c0 + 1)])]

\* the number of bands of an image mode, the last axis of np.array(image)
Bands(mode) ==
    CASE mode = "L"    -> 1
      [] mode = "RGBA" -> 4
      [] OTHER         -> 3

\* img_array.reshape(-1, 3): the number of rows, when the size divides by 3
Reshape3(size) ==
    IF size % 3 # 0
    THEN Raised(<<"cannot reshape array">>)
    ELSE [rows |-> size \div 3, columns |-> 3]

\* _depth_to_pointcloud taking the colors from the image as it is, without
\* image.resize((width, height))
depth_to_pointcloud_unresized(image, depth_map) ==
    IF depth_map.ndim # 2
    THEN Raised(<<"not enough values to unpack">>)
    ELSE LET colors == Reshape3(image.width * image.height
                                    * Bands(image.mode))
         IN  IF IsRaised(colors) THEN colors
             ELSE [points  |-> depth_map.width * depth_map.height,
                   colors  |-> colors.rows,
                   columns |-> <<3, colors.columns>>]

\* MeshGenerator._depth_to_pointcloud(image, depth_map, depth_scale): the
\* numbers of rows of the points and colors arrays and their numbers of
\* columns; unpacking depth_map.shape raises unless the map has two axes
_depth_to_pointcloud(image, depth_map) ==
    IF depth_map.ndim # 2
    THEN Raised(<<"not enough values to unpack">>)
    ELSE LET resized == resize(image, depth_map.width, depth_map.height)
             colors  == Reshape3(resized.width * resized.height
                                     * Bands(resized.mode))
         IN  IF IsRaised(colors) THEN colors
             ELSE [points  |-> depth_map.width * depth_map.height,
                   colors  |-> colors.rows,
                   columns |-> <<3, colors.columns>>]

\* the open3d rung with its except clause re-raising instead of falling back
_create_mesh_open3d_reraising(n, settings, lib) ==
    IF lib.ok
    THEN [mesh_object  |-> [kind |-> "open3d"],
          vertex_count |-> lib.v,
          face_count   |-> lib.f,
          library      |-> "open3d"]
    ELSE Raised("open3d")

\* MeshGenerator._create_mesh_open3d(points, colors, settings); lib is what
\* open3d does
_create_mesh_open3d(n, settings, lib) ==
    IF lib.ok
    THEN [mesh_object  |-> [kind |-> "open3d"],
          vertex_count |-> lib.v,
          face_count   |-> lib.f,
          library      |-> "open3d"]
    ELSE _create_placeholder_mesh(n)

\* MeshGenerator._create_mesh_trimesh(points, colors, settings); lib is what
\* trimesh does (Trimesh(...) and simplify_quadric_decimation)
_create_mesh_trimesh(n, settings, lib) ==
    IF GridHeight(n) # 0 /\ lib.ok
    THEN [mesh_object  |-> [kind |-> "trimesh", faces |-> GridFaces(n)],
          vertex_count |-> lib.v,
          face_count   |-> lib.f,
          library      |-> "trimesh"]
    ELSE _create_placeholder_mesh(n)

\* MeshGenerator.generate, step 2: the rung that builds the mesh
CreateMesh(n, settings, o3d, tri, lib) ==
    IF o3d THEN _create_mesh_open3d(n, settings, lib)
    ELSE IF tri THEN _create_mesh_trimesh(n, settings, lib)
    ELSE _create_placeholder_mesh(n)

\* the rungs one generate call runs on a cloud of n points, in the order it
\* runs them: lines 94-99 pick the first, and the except clause of the
\* open3d rung (189-191) and of the trimesh rung (238-240) each call
\* _create_placeholder_mesh
RungsTried(n, o3d, tri, lib) ==
    IF o3d
    THEN IF lib.ok THEN <<"open3d">> ELSE <<"open3d", "placeholder">>
    ELSE IF tri
    THEN IF GridHeight(n) # 0 /\ lib.ok THEN <<"trimesh">>
         ELSE <<"trimesh", "placeholder">>
    ELSE <<"placeholder">>

\* MeshGenerator.generate(image, depth_map, quality): mesh data, or None when
\* anything raised; o3d and tri are OPEN3D_AVAILABLE and TRIMESH_AVAILABLE
generate(image, depth_map, quality, o3d, tri, lib) ==
    LET settings  == quality_settings(quality)
        cloud     == _depth_to_pointcloud(image, depth_map)
        mesh_data == CreateMesh(cloud.points, settings, o3d, tri, lib)
    IN  IF IsRaised(cloud) THEN None
        ELSE IF IsRaised(mesh_data) THEN None ELSE mesh_data

\* the rung MeshGenerator.generate tries first
TopRung(o3d, tri) ==
    IF o3d THEN "open3d" ELSE IF tri THEN "trimesh" ELSE "placeholder"

-----------------------------------------------------------------------------
(* Paths and export: mesh_generator.py                                     *)

\* 'output_formats' of get_supported_formats
OutputFormats == {"obj", "glb", "gltf", "ply", "stl"}

\* f'.{format}'
DotExt(format) ==
    CASE format = "obj"  -> ".obj"
      [] format = "glb"  -> ".glb"
      [] format = "gltf" -> ".gltf"
      [] format = "ply"  -> ".ply"
      [] format = "stl"  -> ".stl"
      [] OTHER           -> ".bin"

\* f'{output_path}.{output_format}'
WithExt(output_path, format) == Append(output_path, DotExt(format))

\* str.replace(old, new): every occurrence of old becomes new
Replace(path, old, new) ==
    [k \in DOMAIN path |-> IF path[k] = old THEN new ELSE path[k]]

\* what writing a file does: the file is written, the writer raises, or (a
\* writer that reports failure by its return value) nothing is written
IoOutcomes == {"written", "raises", "unwritten"}

\* the outcome of one export call: its return value and the file it wrote
Exported(ok, paths) == [ok |-> ok, written |-> paths]

\* MeshGenerator._export_open3d(mesh, output_path, format); the value of
\* o3d.io.write_triangle_mesh is not looked at
_export_open3d(output_path, format, tri, io) ==
    LET target == IF format = "glb" /\ ~tri
                  THEN Replace(output_path, ".glb", ".ply")
                  ELSE output_path
        silent == ~(format = "glb" /\ tri)
    IN  IF io = "written" THEN Exported(TRUE, {target})
        ELSE IF io = "unwritten" /\ silent THEN Exported(TRUE, {})
        ELSE Exported(FALSE, {})

\* MeshGenerator._export_trimesh(mesh, output_path, format)
_export_trimesh(output_path, format, io) ==
    IF io = "written" THEN Exported(TRUE, {output_path})
    ELSE Exported(FALSE, {})

\* the path MeshGenerator._export_placeholder opens for writing
PlaceholderObjPath(output_path, format) ==
    Replace(output_path, DotExt(format), ".obj")

\* MeshGenerator._export_placeholder(mesh, output_path, format)
_export_placeholder(output_path, format, io) ==
    IF io = "written"
    THEN Exported(TRUE, {PlaceholderObjPath(output_path, format)})
    ELSE Exported(FALSE, {})

\* lines 349-351 of _export_placeholder: the title, the two counts and the
\* blank line the last '\n\n' leaves
ObjHeader(mesh_data) ==
    << [kind |-> "#", label |-> "AniMate 3D Model", count |-> 0],
       [kind |-> "#", label |-> "Vertices", count |-> mesh_data.vertex_count],
       [kind |-> "#", label |-> "Faces", count |-> mesh_data.face_count],
       [kind |-> "blank"] >>

\* the OBJ text with the vertex loop stopping one short
ObjLinesSkippingLast(mesh_data) ==
    ObjHeader(mesh_data)
    \o [k \in 1..(mesh_data.vertices - 1) |-> [kind |-> "v", vertex |-> k - 1]]
    \o [k \in 1..Len(mesh_data.faces) |->
           [kind |-> "f",
            face |-> [m \in 1..3 |-> mesh_data.faces[k][m] + 1]]]

\* lines 349-359 of _export_placeholder: the lines of the OBJ file, one
\* 'v' line for each of mesh['vertices'] and one 'f' line, with 1-based
\* indices, for each of mesh['faces']
ObjLines(mesh_data) ==
    ObjHeader(mesh_data)
    \o [k \in 1..mesh_data.vertices |-> [kind |-> "v", vertex |-> k - 1]]
    \o [k \in 1..Len(mesh_data.faces) |->
           [kind |-> "f",
            face |-> [m \in 1..3 |-> mesh_data.faces[k][m] + 1]]]

\* the lines of one kind of an OBJ text, in order
RECURSIVE LinesOfKind(_, _)
LinesOfKind(lines, kind) ==
    IF lines = <<>> THEN <<>>
    ELSE IF Head(lines).kind = kind
    THEN <<Head(lines)>> \o LinesOfKind(Tail(lines), kind)
    ELSE LinesOfKind(Tail(lines), kind)

\* an OBJ reader: the lines starting with 'v ' are the vertices, those
\* starting with 'f ' the faces, whose indices count from 1
ParseObj(lines) ==
    LET v == LinesOfKind(lines, "v")
        f == LinesOfKind(lines, "f")
    IN  [vertex_count |-> Len(v),
         face_count   |-> Len(f),
         faces        |-> [k \in 1..Len(f) |->
                              [m \in 1..3 |-> f[k].face[m] - 1]]]

\* MeshGenerator.export(mesh, output_path, format)
export(mesh_data, output_path, format, o3d, tri, io) ==
    IF mesh_data.library = "open3d" /\ o3d
    THEN _export_open3d(output_path, format, tri, io)
    ELSE IF mesh_data.library = "trimesh" /\ tri
    THEN _export_trimesh(output_path, format, io)
    ELSE _export_placeholder(output_path, format, io)

\* the outcomes the writer used for mesh_data can have
IoOutcomesOf(mesh_data, format, o3d, tri) ==
    IF mesh_data.library = "open3d" /\ o3d /\ ~(format = "glb" /\ tri)
    THEN IoOutcomes
    ELSE {"written", "raises"}

-----------------------------------------------------------------------------
(* The neural backend: triposr_converter.py                                *)

\* the model TSR.from_pretrained returns
TSR == [py |-> "TSR"]

\* TripoSRConverter.__init__
TripoSRConverter == [model |-> None, _initialized |-> FALSE]

\* what loading the TripoSR model does: it succeeds, TSR.from_pretrained
\* raises, or a later step (set_chunk_size, to(device), rembg) raises
NeuralInitOutcomes == {"ok", "load_fails", "setup_fails"}

\* TripoSRConverter.initialize
TripoSRConverter_initialize(t, outcome) ==
    CASE outcome = "ok" ->
            [obj |-> [t EXCEPT !.model = TSR, !._initialized = TRUE],
             ret |-> TRUE]
      [] outcome = "setup_fails" ->
            [obj |-> [t EXCEPT !.model = TSR], ret |-> FALSE]
      [] OTHER ->
            [obj |-> t, ret |-> FALSE]

\* the messages str(e) of the exceptions a library raises: an exception
\* raised without arguments has the empty message
ExceptionMessages == {<<>>, <<"out of memory">>}

\* what one TripoSR run (preprocess, inference, marching cubes, export) does
NeuralRunOutcomes ==
    {[ok |-> TRUE, v |-> c[1], f |-> c[2], msg |-> <<>>] : c \in LibraryMeshes}
    \cup [ok : {FALSE}, v : {0}, f : {0}, msg : ExceptionMessages]

\* TripoSRConverter.convert(input_image, output_path, output_format,
\* mc_resolution, remove_bg=True)
TripoSRConverter_convert(t, output_path, output_format, mc_resolution, init, run) ==
    LET i  == IF t._initialized THEN [obj |-> t, ret |-> TRUE]
              ELSE TripoSRConverter_initialize(t, init)
        final_output_path == WithExt(output_path, output_format)
    IN  IF ~i.ret
        THEN [obj |-> i.obj, written |-> {},
              result |-> [success |-> FALSE,
                          error   |-> <<"Failed to initialize TripoSR">>]]
        ELSE IF run.ok
        THEN [obj |-> i.obj, written |-> {final_output_path},
              result |-> [success     |-> TRUE,
                          output_path |-> final_output_path,
                          format      |-> output_format,
                          metadata    |-> [vertex_count  |-> run.v,
                                           face_count    |-> run.f,
                                           mc_resolution |-> mc_resolution,
                                           has_texture   |-> FALSE]]]
        ELSE [obj |-> i.obj, written |-> {},
              result |-> [success |-> FALSE, error |-> run.msg]]

\* TripoSRConverter.cleanup
TripoSRConverter_cleanup(t) ==
    [t EXCEPT !.model = None, !._initialized = FALSE]

-----------------------------------------------------------------------------
(* The depth backend: depth_estimator.py                                   *)

\* the model torch.hub.load('intel-isl/MiDaS', 'MiDaS_small') returns
MiDaS == [py |-> "MiDaS_small"]

\* DepthEstimator.__init__
DepthEstimator == [model |-> None, _initialized |-> FALSE]

\* DepthEstimator.initialize with model_type 'midas' and torch importable:
\* device tells whether picking the torch device (line 65) went through,
\* the one step whose exception makes initialize return False;
\* _load_midas_model keeps a failed load to itself and leaves model None
DepthEstimator_initialize(d, device, midas) ==
    IF ~device THEN [obj |-> d, ret |-> FALSE]
    ELSE [obj |-> [d EXCEPT !.model = IF midas THEN MiDaS ELSE None,
                            !._initialized = TRUE],
          ret |-> TRUE]

\* the shapes of the raw prediction a loaded model hands back: every raw
\* depth is a finite number
NeuralPatterns == {"flat", "ramp", "mixed"}

\* what one estimate call meets: whether the MiDaS weights load, whether
\* inference succeeds and with what prediction, whether _placeholder_depth
\* succeeds
DepthOutcomes == [device : BOOLEAN, midas : BOOLEAN, infer : BOOLEAN,
                  placeholder : BOOLEAN,
                  msg : ExceptionMessages, pattern : NeuralPatterns]

\* depth.min() and depth.max() over the values of a map
DepthMin(values) ==
    CHOOSE x \in {values[k] : k \in DOMAIN values} :
        \A k \in DOMAIN values : x <= values[k]

DepthMax(values) ==
    CHOOSE x \in {values[k] : k \in DOMAIN values} :
        \A k \in DOMAIN values : x >= values[k]

\* _normalize_depth with the else branch dividing like the then branch
normalize_depth_unguarded(values) ==
    LET depth_min == DepthMin(values)
        depth_max == DepthMax(values)
    IN  [k \in DOMAIN values |->
            [num |-> values[k] - depth_min, den |-> depth_max - depth_min]]

\* DepthEstimator._normalize_depth(depth): each value is the exact quotient
\* num / den; min() of an empty array raises
_normalize_depth(values) ==
    IF values = <<>>
    THEN Raised(<<"zero-size array to reduction operation minimum">>)
    ELSE LET depth_min == DepthMin(values)
             depth_max == DepthMax(values)
         IN  IF depth_max - depth_min > 0
             THEN [k \in DOMAIN values |->
                      [num |-> values[k] - depth_min,
                       den |-> depth_max - depth_min]]
             ELSE [k \in DOMAIN values |-> [num |-> 0, den |-> 1]]

\* lines 189-202 of _placeholder_depth: (1 - gray/255) * 0.7 + y * 0.3 with
\* y = linspace(0.3, 1.0, height)[row], every value scaled by the common
\* factor 25500 * max(height - 1, 1) so that it is an integer; the pixels
\* are the gray levels of image.convert('L') in row-major order
PlaceholderRaw(image) ==
    LET hm == IF image.height > 1 THEN image.height - 1 ELSE 1
    IN  [k \in 1..(image.width * image.height) |->
            LET row == (k - 1) \div image.width
            IN  70 * (255 - PixelAt(image, k)) * hm + 2295 * hm + 5355 * row]

\* a placeholder that reads the estimator: the map is flipped once a model
\* is loaded
placeholder_depth_stateful(d, image) ==
    [width |-> image.width, height |-> image.height, ndim |-> 2,
     variant |-> "placeholder",
     values |-> _normalize_depth(
                    IF d.model = None THEN PlaceholderRaw(image)
                    ELSE [k \in 1..(image.width * image.height) |->
                             0 - PlaceholderRaw(image)[k]])]

\* DepthEstimator._placeholder_depth(image) on the estimator d: a map of
\* the image's size
_placeholder_depth(d, image) ==
    [width |-> image.width, height |-> image.height, ndim |-> 2,
     variant |-> "placeholder",
     values |-> _normalize_depth(PlaceholderRaw(image))]

\* the raw prediction of n values a loaded model hands back
Prediction(pattern, n) ==
    [k \in 1..n |->
        CASE pattern = "flat" -> 7
          [] pattern = "ramp" -> k
          [] OTHER            -> ((3 * k * k) % 5) - 2]

\* prediction.squeeze() drops every axis of length 1: the number of axes
\* left of the (1, 1, height, width) tensor
SqueezedNdim(image) ==
    (IF image.height > 1 THEN 1 ELSE 0) + (IF image.width > 1 THEN 1 ELSE 0)

\* estimate dropping the model when inference raises
estimateUnloading(d, image, de) ==
    LET i == IF d._initialized THEN [obj |-> d, ret |-> TRUE]
             ELSE DepthEstimator_initialize(d, de.device, de.midas)
        fallback == IF de.placeholder THEN _placeholder_depth(i.obj, image)
                    ELSE Raised(de.msg)
    IN  IF ~i.ret THEN [obj |-> i.obj, depth_map |-> fallback]
        ELSE IF i.obj.model = None THEN [obj |-> i.obj, depth_map |-> fallback]
        ELSE IF de.infer
        THEN [obj |-> i.obj,
              depth_map |->
                  [width |-> image.width, height |-> image.height,
                   ndim |-> SqueezedNdim(image), variant |-> "neural",
                   values |-> _normalize_depth(
                       Prediction(de.pattern,
                                  image.width * image.height))]]
        ELSE [obj |-> [i.obj EXCEPT !.model = None], depth_map |-> fallback]

\* DepthEstimator.estimate(image)
estimate(d, image, de) ==
    LET i == IF d._initialized THEN [obj |-> d, ret |-> TRUE]
             ELSE DepthEstimator_initialize(d, de.device, de.midas)
        fallback == IF de.placeholder THEN _placeholder_depth(i.obj, image)
                    ELSE Raised(de.msg)
    IN  IF ~i.ret THEN [obj |-> i.obj, depth_map |-> fallback]
        ELSE IF i.obj.model = None THEN [obj |-> i.obj, depth_map |-> fallback]
        ELSE IF de.infer
        THEN [obj |-> i.obj,
              depth_map |->
                  [width |-> image.width, height |-> image.height,
                   ndim |-> SqueezedNdim(image), variant |-> "neural",
                   values |-> _normalize_depth(
                       Prediction(de.pattern,
                                  image.width * image.height))]]
        ELSE [obj |-> i.obj, depth_map |-> fallback]

\* DepthEstimator.cleanup
DepthEstimator_cleanup(d) ==
    [d EXCEPT !.model = None, !._initialized = FALSE]

-----------------------------------------------------------------------------
(* The orchestrator: converter.py                                          *)

\* 'quality_levels' of get_supported_formats
Qualities == {"low", "medium", "high"}

\* _load_image with the resolution map of the marching-cubes step
target_resolution_of_mesh(quality) ==
    CASE quality = "low"  -> 128
      [] quality = "high" -> 512
      [] OTHER            -> 256

\* resolution_map.get(quality, 512) of _load_image
target_resolution(quality) ==
    CASE quality = "low"  -> 256
      [] quality = "high" -> 1024
      [] OTHER            -> 512

\* convert leaving the marching-cubes resolution at TripoSR's default
mc_resolution_default(quality) ==
    CASE quality = "low" -> 256
      [] OTHER           -> 256

\* resolution_map.get(quality, 256) of convert
mc_resolution(quality) ==
    CASE quality = "low"  -> 128
      [] quality = "high" -> 512
      [] OTHER            -> 256

\* round_aspect of PIL's Image.thumbnail for the bound (t, t): of the floor
\* and the ceiling of num/den the one that keeps the aspect w/h best, the
\* floor on a tie, and at least 1; wide tells that the height is scaled
RoundAspect(num, den, w, h, t, wide) ==
    LET lo == num \div den
        hi == IF num % den = 0 THEN lo ELSE lo + 1
        Abs(x) == IF x < 0 THEN -x ELSE x
        hiNearer ==
            IF wide
            THEN lo # 0 /\ Abs(w * hi - t * h) * lo < Abs(w * lo - t * h) * hi
            ELSE Abs(w * t - hi * h) < Abs(w * t - lo * h)
        best == IF hiNearer THEN hi ELSE lo
    IN  IF best < 1 THEN 1 ELSE best

\* a thumbnail that leaves every image at the size it has
thumbnailKeeping(image, t) == image

\* image.thumbnail((t, t)): never enlarges, keeps the aspect ratio
thumbnail(image, t) ==
    IF t >= image.width /\ t >= image.height THEN image
    ELSE IF image.height >= image.width
    THEN resize(image,
                RoundAspect(t * image.width, image.height,
                            image.width, image.height, t, FALSE),
                t)
    ELSE resize(image,
                t,
                RoundAspect(t * image.height, image.width,
                            image.width, image.height, t, TRUE))

\* TwoDToThreeDConverter._load_image(path, quality): the RGB image, or None
\* when the file is not a readable image
_load_image(content, quality) ==
    IF ~content.readable THEN None
    ELSE thumbnail([width |-> content.width, height |-> content.height,
                    mode |-> "RGB", pixels |-> content.pixels],
                   target_resolution(quality))

\* TwoDToThreeDConverter.get_supported_formats(): the formats and, for each
\* quality level, the resolution it reports
get_supported_formats ==
    [input_formats  |-> {"png", "jpg", "jpeg", "gif", "bmp", "webp"},
     output_formats |-> OutputFormats,
     quality_levels |-> [low    |-> [resolution |-> 256],
                         medium |-> [resolution |-> 512],
                         high   |-> [resolution |-> 1024]]]

\* MeshGenerator.__init__: the generator keeps no state the pipeline reads
MeshGenerator == [py |-> "MeshGenerator"]

\* TwoDToThreeDConverter.__init__ with the config ConversionService gives it
\* (no 'use_triposr' key, so the default True)
TwoDToThreeDConverter ==
    [use_triposr       |-> TRUE,
     _initialized      |-> FALSE,
     triposr_converter |-> None,
     depth_estimator   |-> None,
     mesh_generator    |-> None]

\* what one initialize call meets: which constructor raises, if any, and
\* what loading the TripoSR model does
InitOutcomes ==
    [ctor : {"ok", "triposr", "estimator", "generator"},
     neural : NeuralInitOutcomes]

\* the MiDaS section with _initialized set before the backends are built
InitializeDepthEager(w, ie, steps) ==
    IF ie.ctor = "estimator"
    THEN [w |-> [w EXCEPT !._initialized = TRUE], ret |-> FALSE,
          steps |-> steps \cup {"depth_setup"}]
    ELSE IF ie.ctor = "generator"
    THEN [w |-> [w EXCEPT !.depth_estimator = DepthEstimator,
                          !._initialized = TRUE],
          ret |-> FALSE, steps |-> steps \cup {"depth_setup"}]
    ELSE [w |-> [w EXCEPT !.depth_estimator = DepthEstimator,
                          !.mesh_generator = MeshGenerator,
                          !._initialized = TRUE],
          ret |-> TRUE, steps |-> steps \cup {"depth_setup"}]

\* the MiDaS section of initialize (lines 77-88)
InitializeDepth(w, ie, steps) ==
    IF ie.ctor = "estimator"
    THEN [w |-> w, ret |-> FALSE, steps |-> steps \cup {"depth_setup"}]
    ELSE IF ie.ctor = "generator"
    THEN [w |-> [w EXCEPT !.depth_estimator = DepthEstimator],
          ret |-> FALSE, steps |-> steps \cup {"depth_setup"}]
    ELSE [w |-> [w EXCEPT !.depth_estimator = DepthEstimator,
                          !.mesh_generator = MeshGenerator,
                          !._initialized = TRUE],
          ret |-> TRUE, steps |-> steps \cup {"depth_setup"}]

\* initialize without line 70: the fallback leaves use_triposr as it was
initializeKeepsStrategy(w, ie) ==
    IF w.use_triposr
    THEN IF ie.ctor = "triposr"
         THEN [w |-> w, ret |-> FALSE, steps |-> {"triposr_new"}]
         ELSE LET t == TripoSRConverter_initialize(TripoSRConverter, ie.neural)
                  w1 == [w EXCEPT !.triposr_converter = t.obj]
              IN  IF t.ret
                  THEN [w |-> [w1 EXCEPT !._initialized = TRUE],
                        ret |-> TRUE,
                        steps |-> {"triposr_new", "triposr_init"}]
                  ELSE InitializeDepth(w1, ie, {"triposr_new", "triposr_init"})
    ELSE InitializeDepth(w, ie, {})

\* TwoDToThreeDConverter.initialize
initialize(w, ie) ==
    IF w.use_triposr
    THEN IF ie.ctor = "triposr"
         THEN [w |-> w, ret |-> FALSE, steps |-> {"triposr_new"}]
         ELSE LET t == TripoSRConverter_initialize(TripoSRConverter, ie.neural)
                  w1 == [w EXCEPT !.triposr_converter = t.obj]
              IN  IF t.ret
                  THEN [w |-> [w1 EXCEPT !._initialized = TRUE],
                        ret |-> TRUE,
                        steps |-> {"triposr_new", "triposr_init"}]
                  ELSE InitializeDepth([w1 EXCEPT !.use_triposr = FALSE], ie,
                                       {"triposr_new", "triposr_init"})
    ELSE InitializeDepth(w, ie, {})

\* cleanup releasing the backend of the active strategy only
cleanupActiveOnly(w) ==
    [w EXCEPT
       !.triposr_converter = IF @ # None /\ w.use_triposr
                             THEN TripoSRConverter_cleanup(@) ELSE @,
       !.depth_estimator   = IF @ # None /\ ~w.use_triposr
                             THEN DepthEstimator_cleanup(@) ELSE @,
       !._initialized      = FALSE]

\* TwoDToThreeDConverter.cleanup
cleanup(w) ==
    [w EXCEPT
       !.triposr_converter = IF @ # None THEN TripoSRConverter_cleanup(@) ELSE @,
       !.depth_estimator   = IF @ # None THEN DepthEstimator_cleanup(@) ELSE @,
       !._initialized      = FALSE]

\* what one convert call meets at each step it may reach
ConvertOutcomes ==
    [init : InitOutcomes, neural_init : NeuralInitOutcomes,
     run : NeuralRunOutcomes, depth : DepthOutcomes, lib : LibOutcomes,
     io : IoOutcomes]

\* a convert result that reports failure
Failure(error) == [success |-> FALSE, error |-> error]

\* the step a backend call runs first when the backend is not initialized:
\* its own initialize(), which loads the model (triposr_converter.py
\* 149-155, depth_estimator.py 137-139)
LazyLoad(backend, step) == IF backend._initialized THEN {} ELSE {step}

\* the TripoSR result handed on as the backend returned it
TagTripoSRUntagged(r) == r

\* lines 164-170: a successful TripoSR result gets its time and method tag,
\* a failed one is returned as it is
TagTripoSR(r) ==
    IF r.success
    THEN [success         |-> TRUE,
          output_path     |-> r.output_path,
          format          |-> r.format,
          metadata        |-> r.metadata,
          processing_time |-> "elapsed",
          method          |-> "TripoSR"]
    ELSE r

\* lines 218-230: the result of the MiDaS branch
MiDaSResult(final_output_path, output_format, image, quality, mesh_data) ==
    [success         |-> TRUE,
     output_path     |-> final_output_path,
     format          |-> output_format,
     processing_time |-> "elapsed",
     method          |-> "MiDaS",
     metadata        |-> [input_resolution |-> <<image.width, image.height>>,
                          quality          |-> quality,
                          vertex_count     |-> mesh_data.vertex_count,
                          face_count       |-> mesh_data.face_count]]

\* what convert hands back to the action that models the call
Outcome(w, fs, r, steps, library) ==
    [w |-> w, files |-> fs, result |-> r, steps |-> steps, library |-> library]

\* the TripoSR pipeline with a demotion to the depth strategy on failure
ConvertTripoSRDemoting(w, fs, req, e, steps) ==
    LET t == TripoSRConverter_convert(w.triposr_converter, req.output_path,
                                      req.output_format,
                                      mc_resolution(req.quality),
                                      e.neural_init, e.run)
    IN  Outcome([w EXCEPT !.triposr_converter = t.obj,
                          !.use_triposr = t.result.success],
                fs \cup t.written,
                TagTripoSR(t.result),
                steps \cup {"triposr_convert"}
                    \cup LazyLoad(w.triposr_converter, "triposr_load"),
                "none")

\* lines 143-170 of convert: the TripoSR pipeline
ConvertTripoSR(w, fs, req, e, steps) ==
    LET t == TripoSRConverter_convert(w.triposr_converter, req.output_path,
                                      req.output_format,
                                      mc_resolution(req.quality),
                                      e.neural_init, e.run)
    IN  Outcome([w EXCEPT !.triposr_converter = t.obj],
                fs \cup t.written,
                TagTripoSR(t.result),
                steps \cup {"triposr_convert"}
                    \cup LazyLoad(w.triposr_converter, "triposr_load"),
                "none")

\* lines 172-230 of convert: the MiDaS pipeline; an attribute of None raises
\* AttributeError, and what _placeholder_depth raises passes through estimate
ConvertMiDaS(w, fs, flags, image, req, e, steps) ==
    IF w.depth_estimator = None
    THEN Outcome(w, fs,
                 Raised(<<"'NoneType' object has no attribute 'estimate'">>),
                 steps, "none")
    ELSE
    LET d  == estimate(w.depth_estimator, image, e.depth)
        w2 == [w EXCEPT !.depth_estimator = d.obj]
        s2 == steps \cup {"estimate"}
                 \cup (IF e.depth.device
                       THEN LazyLoad(w.depth_estimator, "midas_load")
                       ELSE {})
    IN  IF IsRaised(d.depth_map)
        THEN Outcome(w2, fs, d.depth_map, s2, "none")
        ELSE IF w2.mesh_generator = None
        THEN Outcome(w2, fs,
                 Raised(<<"'NoneType' object has no attribute 'generate'">>),
                 s2, "none")
        ELSE
        LET m  == generate(image, d.depth_map, req.quality, flags.open3d,
                           flags.trimesh, e.lib)
            s3 == s2 \cup {"generate"}
        IN  IF m = None
            THEN Outcome(w2, fs, Failure(<<"Mesh generation failed">>), s3,
                         "none")
            ELSE
            LET final_output_path == WithExt(req.output_path,
                                             req.output_format)
                x  == export(m, final_output_path, req.output_format,
                             flags.open3d, flags.trimesh, e.io)
                s4 == s3 \cup {"export"}
            IN  IF ~x.ok
                THEN Outcome(w2, fs \cup x.written,
                             Failure(<<"Failed to export mesh">>), s4,
                             m.library)
                ELSE Outcome(w2, fs \cup x.written,
                             MiDaSResult(final_output_path, req.output_format,
                                         image, req.quality, m),
                             s4, m.library)

\* lazy initialization that does not look at _initialized
EnsureInitializedAlways(w, ie) ==
    LET i == initialize(w, ie)
    IN  [i EXCEPT !.steps = @ \cup {"initialize"}]

\* lines 116-122 of convert: lazy initialization
EnsureInitialized(w, ie) ==
    IF w._initialized THEN [w |-> w, ret |-> TRUE, steps |-> {}]
    ELSE LET i == initialize(w, ie)
         IN  [i EXCEPT !.steps = @ \cup {"initialize"}]

\* a message that does not say what is wrong with the input
NotFoundVague(input_path) == <<"Invalid input", ":">> \o input_path

\* f'Input file not found: {input_path}'
NotFound(input_path) == <<"Input file", "not found", ":">> \o input_path

\* a try block that restores the configured strategy before each conversion
ConvertBodyRetrying(w, fs, content, flags, req, e) ==
    LET i == EnsureInitialized([w EXCEPT !.use_triposr = TRUE], e.init)
    IN  IF ~i.ret
        THEN Outcome(i.w, fs, Failure(<<"Failed to initialize converter">>),
                     i.steps, "none")
        ELSE IF req.input_path \notin fs
        THEN Outcome(i.w, fs,
                     Failure(NotFound(req.input_path)), i.steps, "none")
        ELSE
        LET image == _load_image(content, req.quality)
            s1    == i.steps \cup {"load_image"}
        IN  IF image = None
            THEN Outcome(i.w, fs, Failure(<<"Failed to load image">>), s1,
                         "none")
            ELSE IF i.w.use_triposr /\ i.w.triposr_converter # None
            THEN ConvertTripoSR(i.w, fs, req, e, s1)
            ELSE ConvertMiDaS(i.w, fs, flags, image, req, e, s1)

\* the body of the try block of convert (lines 116-230): a result, or the
\* exception that leaves it
ConvertBody(w, fs, content, flags, req, e) ==
    LET i == EnsureInitialized(w, e.init)
    IN  IF ~i.ret
        THEN Outcome(i.w, fs, Failure(<<"Failed to initialize converter">>),
                     i.steps, "none")
        ELSE IF req.input_path \notin fs
        THEN Outcome(i.w, fs,
                     Failure(NotFound(req.input_path)), i.steps, "none")
        ELSE
        LET image == _load_image(content, req.quality)
            s1    == i.steps \cup {"load_image"}
        IN  IF image = None
            THEN Outcome(i.w, fs, Failure(<<"Failed to load image">>), s1,
                         "none")
            ELSE IF i.w.use_triposr /\ i.w.triposr_converter # None
            THEN ConvertTripoSR(i.w, fs, req, e, s1)
            ELSE ConvertMiDaS(i.w, fs, flags, image, req, e, s1)

\* an exception handler that also marks the orchestrator uninitialized
HandleExceptionResetting(b) ==
    IF IsRaised(b.result)
    THEN [b EXCEPT !.result = Failure(b.result.msg),
                   !.w = [b.w EXCEPT !._initialized = FALSE]]
    ELSE b

\* lines 232-237: except Exception as e: the result carries str(e)
HandleException(b) ==
    IF IsRaised(b.result) THEN [b EXCEPT !.result = Failure(b.result.msg)]
    ELSE b

\* TwoDToThreeDConverter.convert(input_path, output_path, output_format,
\* quality) on the orchestrator w with the files fs on disk; content is what
\* the input file holds, flags the libraries that were importable
convert(w, fs, content, flags, req, e) ==
    HandleException(ConvertBody(w, fs, content, flags, req, e))

-----------------------------------------------------------------------------
(* The state machine of the orchestrator.                                  *)

\* the orchestrator object as one value
Orchestrator ==
    [use_triposr       |-> use_triposr,
     _initialized      |-> _initialized,
     triposr_converter |-> triposr_converter,
     depth_estimator   |-> depth_estimator,
     mesh_generator    |-> mesh_generator]

\* the module-level availability flags of mesh_generator.py
Flags == [open3d |-> OPEN3D_AVAILABLE, trimesh |-> TRIMESH_AVAILABLE]

\* the input file a caller uploads, and a path no file is at
InputFile == <<"upload", ".png">>
MissingFile == <<"nonexistent", ".png">>

\* what the input file may hold: an image of some size, or no image at all
InputImages ==
    {[readable |-> FALSE, width |-> 0, height |-> 0, pixels |-> Solid(0)]}
    \cup {[readable |-> TRUE, width |-> w, height |-> h,
           pixels |-> Solid(0)] :
              w \in 1..MaxDim, h \in 1..MaxDim}

\* the arguments of a convert call; the calls of one behaviour ask for one
\* output format (convert reads no output file, so formats do not interact)
Requests ==
    [input_path    : {InputFile, MissingFile},
     output_path   : {<<"model">>},
     output_format : {job_format},
     quality       : Qualities]

\* the outcomes an initialize call can meet on the orchestrator w: one
\* representative for each way through lines 60-92
InitOutcomesFor(w) ==
    IF w.use_triposr
    THEN {[ctor |-> "triposr", neural |-> "ok"], [ctor |-> "ok", neural |-> "ok"]}
         \cup [ctor : {"ok", "estimator", "generator"},
               neural : {"load_fails", "setup_fails"}]
    ELSE [ctor : {"ok", "estimator", "generator"}, neural : {"ok"}]

\* the outcomes an estimate call can meet on the estimator d: one
\* representative for each way through lines 137-172
DepthOutcomesFor(d) ==
    {de \in DepthOutcomes :
        LET loaded == IF d._initialized THEN d.model # None
                      ELSE de.device /\ de.midas
        IN  /\ (d._initialized => de.device)
            /\ (d._initialized \/ ~de.device => de.midas)
            /\ (~loaded => de.infer)
            /\ (loaded /\ de.infer => de.placeholder)
            /\ (de.placeholder => de.msg = <<>>)
            /\ (~(loaded /\ de.infer) => de.pattern = "ramp")}

DefaultInit == [ctor |-> "ok", neural |-> "ok"]
DefaultRun == [ok |-> TRUE, v |-> 8, f |-> 12, msg |-> <<>>]
DefaultDepth ==
    [device |-> TRUE, midas |-> TRUE, infer |-> TRUE, placeholder |-> TRUE,
     msg |-> <<>>,
     pattern |-> "ramp"]
DefaultLib == [ok |-> TRUE, v |-> 8, f |-> 12]

SetOrchestrator(w) ==
    /\ use_triposr' = w.use_triposr
    /\ _initialized' = w._initialized
    /\ triposr_converter' = w.triposr_converter
    /\ depth_estimator' = w.depth_estimator
    /\ mesh_generator' = w.mesh_generator

\* no call is in progress and the last result has been taken
Idle == call.op = "none"

\* the class attribute before the first get_converter() (line 26), with no
\* request thread in flight: the specifications of a single caller hold the
\* one orchestrator in the variables use_triposr .. mesh_generator
NoRequests ==
    /\ _converter_instance = None
    /\ instances = <<>>
    /\ requests = <<>>

\* a caller calls initialize()
Initialize ==
    /\ Idle
    /\ \E ie \in InitOutcomesFor(Orchestrator) :
        LET r == initialize(Orchestrator, ie)
        IN  /\ SetOrchestrator(r.w)
            /\ result' = [ret |-> r.ret]
            /\ call' = [op |-> "initialize", met |-> ie, steps |-> r.steps,
                        before |-> Orchestrator]
    /\ UNCHANGED <<environmentVars, files, mesh, first_placeholder, loads, singletonVars>>

\* a caller calls cleanup()
Cleanup ==
    /\ Idle
    /\ SetOrchestrator(cleanup(Orchestrator))
    /\ result' = None
    /\ call' = [op |-> "cleanup", before |-> Orchestrator]
    /\ UNCHANGED <<environmentVars, files, mesh, first_placeholder, loads, singletonVars>>

\* no model has been loaded: the state of the count after __init__
NoLoads == [triposr |-> 0, midas |-> 0, initialize |-> 0]

\* what a convert call with the arguments req can meet on the orchestrator w:
\* the nested choices draw, for each step the call reaches, what that step
\* meets, and leave the steps it does not reach at their defaults
ConvertOutcomesFor(w, fs, content, flags, req) ==
    UNION {
      LET i      == EnsureInitialized(w, ie)
          image  == IF i.ret /\ req.input_path \in fs
                    THEN _load_image(content, req.quality) ELSE None
          neural == image # None /\ i.w.use_triposr
                    /\ i.w.triposr_converter # None
          depth  == image # None /\ ~neural /\ i.w.depth_estimator # None
      IN
      UNION {
        LET dm == IF depth
                  THEN estimate(i.w.depth_estimator, image, de).depth_map
                  ELSE None
            meshable == depth /\ ~IsRaised(dm) /\ i.w.mesh_generator # None
        IN
        UNION {
          LET m == IF meshable
                   THEN generate(image, dm, req.quality, flags.open3d,
                                 flags.trimesh, lib)
                   ELSE None
          IN  [init : {ie},
               neural_init : (IF neural /\ ~i.w.triposr_converter._initialized
                              THEN NeuralInitOutcomes ELSE {"ok"}),
               run : (IF neural THEN NeuralRunOutcomes ELSE {DefaultRun}),
               depth : {de},
               lib : {lib},
               io : (IF m # None
                     THEN IoOutcomesOf(m, req.output_format, flags.open3d,
                                       flags.trimesh)
                     ELSE {"written"})]
          : lib \in (IF meshable THEN LibOutcomes ELSE {DefaultLib}) }
        : de \in (IF depth THEN DepthOutcomesFor(i.w.depth_estimator)
                  ELSE {DefaultDepth}) }
      : ie \in (IF w._initialized THEN {DefaultInit}
                ELSE InitOutcomesFor(w)) }

\* a caller calls convert(input_path, output_path, output_format, quality)
ConvertCall ==
    /\ Idle
    /\ \E req \in Requests :
       \E e \in ConvertOutcomesFor(Orchestrator, files, input_image, Flags,
                                   req) :
          LET r == convert(Orchestrator, files, input_image, Flags, req, e)
          IN  /\ SetOrchestrator(r.w)
              /\ files' = r.files
              /\ result' = r.result
              /\ call' = [op |-> "convert", req |-> req,
                          met |-> e, steps |-> r.steps,
                          library |-> r.library,
                          before |-> Orchestrator,
                          files_before |-> files]

\* a convert call outside a counted series
Convert ==
    /\ ConvertCall
    /\ UNCHANGED <<environmentVars, mesh, first_placeholder, loads, singletonVars>>

\* the caller takes the value the call returned
Return ==
    /\ ~Idle
    /\ result' = None
    /\ call' = [op |-> "none"]
    /\ mesh' = None
    /\ UNCHANGED <<orchestratorVars, environmentVars, first_placeholder, loads, singletonVars>>

\* the state after TwoDToThreeDConverter(config) in a process that could
\* import the package: triposr_converter.py imports trimesh and torch
\* unguarded, so trimesh is importable wherever the converter exists
Init ==
    /\ use_triposr = TwoDToThreeDConverter.use_triposr
    /\ _initialized = TwoDToThreeDConverter._initialized
    /\ triposr_converter = TwoDToThreeDConverter.triposr_converter
    /\ depth_estimator = TwoDToThreeDConverter.depth_estimator
    /\ mesh_generator = TwoDToThreeDConverter.mesh_generator
    /\ OPEN3D_AVAILABLE \in BOOLEAN
    /\ TRIMESH_AVAILABLE = TRUE
    /\ files = {InputFile}
    /\ input_image \in InputImages
    /\ job_format \in OutputFormats
    /\ result = None
    /\ call = [op |-> "none"]
    /\ mesh = None
    /\ first_placeholder = None
    /\ loads = NoLoads
    /\ NoRequests

Next == Initialize \/ Convert \/ Cleanup \/ Return

Spec == Init /\ [][Next]_vars

-----------------------------------------------------------------------------
(* A series of convert calls on one orchestrator, with no cleanup() and no  *)
(* explicit initialize() in between, and the count of the model loads the   *)
(* calls made.                                                              *)

\* the most loads the count tells apart
MaxLoads == 2

\* the count after a convert call that ran the steps given: a run of
\* TripoSRConverter.initialize is a load of the TripoSR weights, a run of
\* DepthEstimator.initialize a load of MiDaS, and initialized tells whether
\* the orchestrator's initialize() ran and returned True
LoadsAfter(l, steps, initialized) ==
    LET capped(n) == IF n < MaxLoads THEN n ELSE MaxLoads
    IN  [triposr    |-> capped(l.triposr
                               + Cardinality(steps \cap {"triposr_init",
                                                         "triposr_load"})),
         midas      |-> capped(l.midas
                               + Cardinality(steps \cap {"midas_load"})),
         initialize |-> capped(l.initialize
                               + (IF "initialize" \in steps /\ initialized
                                  THEN 1 ELSE 0))]

\* one more convert call of the series
SeriesConvert ==
    /\ ConvertCall
    /\ loads' = LoadsAfter(loads, call'.steps, _initialized')
    /\ UNCHANGED <<environmentVars, mesh, first_placeholder, singletonVars>>

SeriesNext == SeriesConvert \/ Return

SeriesSpec == Init /\ [][SeriesNext]_vars

-----------------------------------------------------------------------------
(* The service layer: services/conversion_service.py.  The route saves the  *)
(* upload, draws a fresh uuid4 as job_id and hands both to                  *)
(* ConversionService.convert, which runs the one shared orchestrator.       *)

\* the job ids the route draws: str(uuid.uuid4()), which holds no '.'
JobIds == {"3f0c51a2", "9d2e77b4"}

\* os.path.join(self.upload_folder, 'output') with the default UPLOAD_FOLDER
OutputFolder == <<"uploads", "output">>

\* an output path that does not depend on the job
OutputPathShared(job_id) == Append(OutputFolder, "model")

\* os.path.join(output_folder, job_id)
OutputPath(job_id) == Append(OutputFolder, job_id)

\* the service removing the input file whatever the conversion returned
ServiceOutcomeRemoving(r, fs, input_path, removed) ==
    IF r.result.success
    THEN [w |-> r.w,
          files |-> IF removed THEN r.files \ {input_path} ELSE r.files,
          steps |-> r.steps, written |-> r.files \ fs,
          converted |-> r.files, produced |-> r.result.method,
          result |-> [success     |-> TRUE,
                      output_file |-> r.result.output_path,
                      preview_url |-> None,
                      metadata    |-> r.result.metadata]]
    ELSE [w |-> r.w, files |-> r.files \ {input_path}, steps |-> r.steps,
          written |-> r.files \ fs, converted |-> r.files,
          produced |-> None,
          result |-> [success |-> FALSE, message |-> r.result.error]]

\* lines 106-125 of ConversionService.convert: what the service makes of the
\* orchestrator's outcome r; removed tells whether os.remove(input_path)
\* went through, and converted keeps the files convert left on disk
ServiceOutcome(r, fs, input_path, removed) ==
    IF r.result.success
    THEN [w |-> r.w,
          files |-> IF removed THEN r.files \ {input_path} ELSE r.files,
          steps |-> r.steps, written |-> r.files \ fs,
          converted |-> r.files, produced |-> r.result.method,
          result |-> [success     |-> TRUE,
                      output_file |-> r.result.output_path,
                      preview_url |-> None,
                      metadata    |-> r.result.metadata]]
    ELSE [w |-> r.w, files |-> r.files, steps |-> r.steps,
          written |-> r.files \ fs, converted |-> r.files,
          produced |-> None,
          result |-> [success |-> FALSE, message |-> r.result.error]]

\* ConversionService.convert(input_path, job_id, output_format, quality) with
\* the singleton converter w
ConversionService_convert(w, fs, content, flags, input_path, job_id, output_format, quality, e, removed) ==
    IF input_path \notin fs
    THEN [w |-> w, files |-> fs, steps |-> {}, written |-> {},
          converted |-> fs, produced |-> None,
          result |-> [success |-> FALSE, message |-> NotFound(input_path)]]
    ELSE ServiceOutcome(convert(w, fs, content, flags,
                                [input_path    |-> input_path,
                                 output_path   |-> OutputPath(job_id),
                                 output_format |-> output_format,
                                 quality       |-> quality], e),
                        fs, input_path, removed)

\* conversion_routes.py line 156: result.get('method', 'MiDaS') on the
\* dictionary the service returned
SettingsMethod(service_result) ==
    IF "method" \in DOMAIN service_result THEN service_result.method
    ELSE "MiDaS"

\* conversion_routes.py lines 127-159: the settings the route hands to
\* save_conversion; a failed conversion returns before it records anything
Settings(service_result) ==
    IF service_result.success
    THEN [method |-> SettingsMethod(service_result)]
    ELSE None

\* the state after a ConversionService.convert call with the outcome r;
\* os.remove is reached by a successful conversion only; produced keeps the
\* method tag of the orchestrator's own result
ServiceReturns(r, job_id, req, e, removed) ==
    /\ (removed \/ r.result.success)
    /\ SetOrchestrator(r.w)
    /\ files' = r.files
    /\ result' = r.result
    /\ call' = [op |-> "service_convert", job_id |-> job_id,
                req |-> req, met |-> e, steps |-> r.steps,
                written |-> r.written, before |-> Orchestrator,
                files_before |-> files, converted |-> r.converted,
                removed |-> removed, produced |-> r.produced,
                settings |-> Settings(r.result)]

\* the request of the route for the job job_id
ServiceRequest(job_id, input_path, quality) ==
    [input_path    |-> input_path,
     output_path   |-> OutputPath(job_id),
     output_format |-> job_format,
     quality       |-> quality]

\* the route handles one request: ConversionService().convert(...)
ServiceConvert ==
    /\ Idle
    /\ \E job_id \in JobIds, input_path \in {InputFile, MissingFile},
          quality \in Qualities :
       \E e \in (IF input_path \in files
                  THEN ConvertOutcomesFor(Orchestrator, files, input_image,
                                          Flags,
                                          ServiceRequest(job_id, input_path,
                                                         quality))
                  ELSE {[init |-> DefaultInit, neural_init |-> "ok",
                         run |-> DefaultRun, depth |-> DefaultDepth,
                         lib |-> DefaultLib, io |-> "written"]}) :
       \E removed \in BOOLEAN :
          ServiceReturns(
              ConversionService_convert(Orchestrator, files, input_image,
                                        Flags, input_path, job_id,
                                        job_format, quality, e, removed),
              job_id, ServiceRequest(job_id, input_path, quality), e,
              removed)
    /\ UNCHANGED <<environmentVars, mesh, first_placeholder, loads, singletonVars>>

\* FileHandler.save_upload: the route stores the next upload
SaveUpload ==
    /\ Idle
    /\ InputFile \notin files
    /\ files' = files \cup {InputFile}
    /\ UNCHANGED <<use_triposr, _initialized, triposr_converter,
                   depth_estimator, mesh_generator, environmentVars, result,
                   call, mesh, first_placeholder, loads, singletonVars>>

ServiceNext == ServiceConvert \/ SaveUpload \/ Return

\* the requests of one behaviour upload the same file: an unreadable one,
\* or an image of two by two pixels
ServiceInit ==
    /\ Init
    /\ input_image.readable => input_image.width = 2 /\ input_image.height = 2

ServiceSpec == ServiceInit /\ [][ServiceNext]_vars

-----------------------------------------------------------------------------
(* Conversion requests running concurrently in one process: each request    *)
(* thread runs ConversionService.convert, that is get_converter() and then  *)
(* convert() on the orchestrator it got.  Neither holds a lock, so the      *)
(* threads interleave between the test and the assignment of get_converter  *)
(* (lines 47-58) and between the test and the call of the lazy              *)
(* initialization (converter.py lines 117-118).                             *)

\* the number of requests in flight
MaxRequests == 2

RequestThreads == 1..MaxRequests

\* a request thread entering ConversionService.convert
NewRequest == [pc |-> "get_converter", converter |-> None, success |-> None]

\* the job ids the route drew for the requests in flight, all different
JobOf == <<"3f0c51a2", "9d2e77b4", "c41a09e7", "58b7d0f1">>

\* the request of the thread t: the uploaded file, the output path of its
\* own job, default quality
ConcurrentRequest(t) ==
    [input_path    |-> InputFile,
     output_path   |-> OutputPath(JobOf[t]),
     output_format |-> job_format,
     quality       |-> "medium"]

\* the orchestrator the thread t holds in its local variable converter
Held(t) == instances[requests[t].converter.ref]

\* line 47: if cls._converter_instance is None
TestInstance ==
    /\ \E t \in DOMAIN requests :
        /\ requests[t].pc = "get_converter"
        /\ requests' = [requests EXCEPT
                          ![t].pc = IF _converter_instance = None
                                    THEN "create" ELSE "return"]
    /\ UNCHANGED <<orchestratorVars, environmentVars, result, call, mesh,
                   first_placeholder, loads, _converter_instance, instances>>

\* lines 48-58: cls._converter_instance = TwoDToThreeDConverter(config=...)
CreateInstance ==
    /\ \E t \in DOMAIN requests :
        /\ requests[t].pc = "create"
        /\ instances' = Append(instances, TwoDToThreeDConverter)
        /\ _converter_instance' = [ref |-> Len(instances) + 1]
        /\ requests' = [requests EXCEPT ![t].pc = "return"]
    /\ UNCHANGED <<orchestratorVars, environmentVars, result, call, mesh,
                   first_placeholder, loads>>

\* line 60: return cls._converter_instance, bound to the local converter
ReturnInstance ==
    /\ \E t \in DOMAIN requests :
        /\ requests[t].pc = "return"
        /\ requests' = [requests EXCEPT ![t].converter = _converter_instance,
                                        ![t].pc = "convert"]
    /\ UNCHANGED <<orchestratorVars, environmentVars, result, call, mesh,
                   first_placeholder, loads, _converter_instance, instances>>

\* converter.py line 117: if not self._initialized
TestInitialized ==
    /\ \E t \in DOMAIN requests :
        /\ requests[t].pc = "convert"
        /\ requests' = [requests EXCEPT
                          ![t].pc = IF Held(t)._initialized
                                    THEN "run" ELSE "initialize"]
    /\ UNCHANGED <<orchestratorVars, environmentVars, result, call, mesh,
                   first_placeholder, loads, _converter_instance, instances>>

\* the steps of an initialize() run that loaded the neural model: the run
\* of TripoSRConverter.initialize that returned True
NeuralLoad(r) ==
    IF r.ret /\ r.w.use_triposr THEN r.steps \cap {"triposr_init"} ELSE {}

\* converter.py lines 118-122: self.initialize() of the lazy initialization;
\* a False return ends the request with a failure result
RunInitialize ==
    /\ \E t \in DOMAIN requests :
        /\ requests[t].pc = "initialize"
        /\ \E ie \in InitOutcomesFor(Held(t)) :
            LET r == initialize(Held(t), ie)
            IN  /\ instances' = [instances EXCEPT
                                   ![requests[t].converter.ref] = r.w]
                /\ loads' = LoadsAfter(loads,
                                       NeuralLoad(r) \cup {"initialize"},
                                       r.ret)
                /\ requests' = [requests EXCEPT
                                  ![t].pc = IF r.ret THEN "run" ELSE "done",
                                  ![t].success = IF r.ret THEN @ ELSE FALSE]
    /\ UNCHANGED <<orchestratorVars, environmentVars, result, call, mesh,
                   first_placeholder, _converter_instance>>

\* the value the rest of convert() returns on the orchestrator w, which the
\* lazy initialization left initialized
RunOutcome(r, t) ==
    /\ instances' = [instances EXCEPT ![requests[t].converter.ref] = r.w]
    /\ files' = r.files
    /\ loads' = LoadsAfter(loads, r.steps, FALSE)
    /\ requests' = [requests EXCEPT ![t].pc = "done",
                                    ![t].success = r.result.success]

\* converter.py lines 124-237: the rest of convert() on the orchestrator held
RunConvert ==
    /\ \E t \in DOMAIN requests :
        /\ requests[t].pc = "run"
        /\ \E e \in ConvertOutcomesFor(Held(t), files, input_image, Flags,
                                       ConcurrentRequest(t)) :
            RunOutcome(convert(Held(t), files, input_image, Flags,
                               ConcurrentRequest(t), e), t)
    /\ UNCHANGED <<use_triposr, _initialized, triposr_converter,
                   depth_estimator, mesh_generator, environmentVars, result,
                   call, mesh, first_placeholder, _converter_instance>>

\* the process before its first request, with MaxRequests requests arriving
\* together: no converter instance, every thread at the head of
\* ConversionService.convert, one readable upload of one pixel
ConcurrentInit ==
    /\ use_triposr = TwoDToThreeDConverter.use_triposr
    /\ _initialized = TwoDToThreeDConverter._initialized
    /\ triposr_converter = TwoDToThreeDConverter.triposr_converter
    /\ depth_estimator = TwoDToThreeDConverter.depth_estimator
    /\ mesh_generator = TwoDToThreeDConverter.mesh_generator
    /\ OPEN3D_AVAILABLE \in BOOLEAN
    /\ TRIMESH_AVAILABLE = TRUE
    /\ files = {InputFile}
    /\ input_image = [readable |-> TRUE, width |-> 1, height |-> 1,
                      pixels |-> Solid(0)]
    /\ job_format = "obj"
    /\ result = None
    /\ call = [op |-> "none"]
    /\ mesh = None
    /\ first_placeholder = None
    /\ loads = NoLoads
    /\ _converter_instance = None
    /\ instances = <<>>
    /\ requests = [t \in RequestThreads |-> NewRequest]

ConcurrentNext ==
    \/ TestInstance
    \/ CreateInstance
    \/ ReturnInstance
    \/ TestInitialized
    \/ RunInitialize
    \/ RunConvert

ConcurrentSpec == ConcurrentInit /\ [][ConcurrentNext]_vars

-----------------------------------------------------------------------------
(* The mesh builder on its own: MeshGenerator called as the tests call it. *)

\* the depth maps (and images of the same size) handed to generate
Grid(w, h) == [width |-> w, height |-> h, ndim |-> 2]

\* Image.new('RGB', (w, h)): an RGB image of one colour
RGBImage(w, h) ==
    [width |-> w, height |-> h, mode |-> "RGB",
     pixels |-> Solid(0)]

\* a caller calls _depth_to_pointcloud with an RGB image and a depth map
\* whose sizes need not agree
DepthToPointcloud ==
    /\ Idle
    /\ \E iw \in 1..MaxDim, ih \in 1..MaxDim,
          w \in 1..MaxGridDim, h \in 1..MaxGridDim :
        /\ mesh' = _depth_to_pointcloud(RGBImage(iw, ih), Grid(w, h))
        /\ call' = [op |-> "_depth_to_pointcloud", width |-> w, height |-> h,
                    image_width |-> iw, image_height |-> ih]
    /\ UNCHANGED <<orchestratorVars, environmentVars, result,
                   first_placeholder, loads, singletonVars>>

\* a caller calls _create_placeholder_mesh on a cloud of n points
CreatePlaceholderMesh ==
    /\ Idle
    /\ \E n \in 0..MaxPoints :
        /\ mesh' = _create_placeholder_mesh(n)
        /\ call' = [op |-> "_create_placeholder_mesh", n |-> n]
    /\ UNCHANGED <<orchestratorVars, environmentVars, result,
                   first_placeholder, loads, singletonVars>>

\* a caller calls _create_mesh_trimesh on a cloud of n points
CreateMeshTrimesh ==
    /\ Idle
    /\ \E n \in 0..MaxPoints, q \in Qualities, lib \in LibOutcomes :
        /\ mesh' = _create_mesh_trimesh(n, quality_settings(q), lib)
        /\ call' = [op |-> "_create_mesh_trimesh", n |-> n, lib |-> lib]
    /\ UNCHANGED <<orchestratorVars, environmentVars, result,
                   first_placeholder, loads, singletonVars>>

\* a caller calls _create_mesh_open3d on a cloud of n points
CreateMeshOpen3d ==
    /\ Idle
    /\ OPEN3D_AVAILABLE
    /\ \E n \in 0..MaxPoints, q \in Qualities, lib \in LibOutcomes :
        /\ mesh' = _create_mesh_open3d(n, quality_settings(q), lib)
        /\ call' = [op |-> "_create_mesh_open3d", n |-> n, lib |-> lib]
    /\ UNCHANGED <<orchestratorVars, environmentVars, result,
                   first_placeholder, loads, singletonVars>>

\* a caller exports a placeholder mesh of n points with _export_placeholder
ExportPlaceholder ==
    /\ Idle
    /\ \E n \in 1..MaxPoints, format \in OutputFormats,
          io \in {"written", "raises"} :
        LET m == _create_placeholder_mesh(n)
            x == _export_placeholder(WithExt(<<"model">>, format), format, io)
        IN  /\ files' = files \cup x.written
            /\ result' = [ret |-> x.ok]
            /\ call' = [op |-> "_export_placeholder", n |-> n,
                        mesh |-> m, format |-> format, io |-> io,
                        written |-> x.written,
                        content |-> IF x.ok THEN ObjLines(m) ELSE <<>>]
    /\ UNCHANGED <<use_triposr, _initialized, triposr_converter,
                   depth_estimator, mesh_generator, environmentVars, mesh,
                   first_placeholder, loads, singletonVars>>

\* a caller calls generate(image, depth_map, quality)
Generate ==
    /\ Idle
    /\ \E w \in 1..MaxGridDim, h \in 1..MaxGridDim, q \in Qualities,
          lib \in LibOutcomes :
        /\ mesh' = generate(RGBImage(w, h), Grid(w, h), q, OPEN3D_AVAILABLE,
                            TRIMESH_AVAILABLE, lib)
        /\ call' = [op |-> "generate", width |-> w, height |-> h,
                    n |-> w * h, quality |-> q, lib |-> lib,
                    top |-> TopRung(OPEN3D_AVAILABLE, TRIMESH_AVAILABLE),
                    rungs |-> RungsTried(w * h, OPEN3D_AVAILABLE,
                                         TRIMESH_AVAILABLE, lib)]
    /\ UNCHANGED <<orchestratorVars, environmentVars, result,
                   first_placeholder, loads, singletonVars>>

\* the mesh builder needs no input file and no orchestrator
MeshInit ==
    /\ Init
    /\ ~input_image.readable
    /\ job_format = "obj"

MeshNext ==
    \/ CreatePlaceholderMesh
    \/ CreateMeshTrimesh
    \/ CreateMeshOpen3d
    \/ DepthToPointcloud
    \/ ExportPlaceholder
    \/ Generate
    \/ Return

MeshSpec == MeshInit /\ [][MeshNext]_vars

-----------------------------------------------------------------------------
(* The orchestrator with its preprocessing step called on its own, on      *)
(* images large enough for the resize bound to act.                        *)

\* the widths and heights of the files handed to _load_image
LoadDims == {1, 200, 256, 300, 512, 600, 1024, 1100}

\* image.size and image.mode of a loaded image
ImageInfo(image) ==
    IF image = None THEN None
    ELSE [width |-> image.width, height |-> image.height,
          mode |-> image.mode]

\* a caller calls _load_image(path, quality) on a file of some size
LoadImage ==
    /\ Idle
    /\ \E w \in LoadDims, h \in LoadDims, q \in Qualities,
          readable \in BOOLEAN :
        LET content == [readable |-> readable, width |-> w, height |-> h,
                        pixels |-> Solid(0)]
        IN  /\ result' = ImageInfo(_load_image(content, q))
            /\ call' = [op |-> "_load_image", quality |-> q,
                        readable |-> readable, width |-> w, height |-> h]
    /\ UNCHANGED <<orchestratorVars, environmentVars, mesh, first_placeholder, loads, singletonVars>>

\* a caller calls get_supported_formats()
GetSupportedFormats ==
    /\ Idle
    /\ result' = get_supported_formats
    /\ call' = [op |-> "get_supported_formats"]
    /\ UNCHANGED <<orchestratorVars, environmentVars, mesh, first_placeholder, loads, singletonVars>>

\* one orchestrator, one 2x2 input image, one output format
QualityInit ==
    /\ Init
    /\ input_image.readable
    /\ input_image.width = 2
    /\ input_image.height = 2
    /\ job_format = "obj"
    /\ ~OPEN3D_AVAILABLE

QualityNext ==
    \/ Initialize
    \/ Convert
    \/ Cleanup
    \/ LoadImage
    \/ GetSupportedFormats
    \/ Return

QualitySpec == QualityInit /\ [][QualityNext]_vars

-----------------------------------------------------------------------------
(* The depth estimator on its own: depth_estimator.py                      *)

\* the gray levels of the pixels of the images handed to the estimator
GrayLevels == {0, 255}

\* the images handed to the estimator: RGB, of at most MaxPixels pixels
DepthImages ==
    UNION {[width : {s[1]}, height : {s[2]}, mode : {"RGB"},
            pixels : {Pixels(f) : f \in [1..(s[1] * s[2]) -> GrayLevels]}] :
               s \in {t \in (1..MaxPixels) \X (1..MaxPixels) :
                          t[1] * t[2] <= MaxPixels}}

\* the raw depth values handed directly to _normalize_depth
RawValues == {-3, 0, 5}

\* the raw maps handed directly to _normalize_depth
RawMaps == UNION {[1..n -> RawValues] : n \in 1..MaxPixels}

\* the first placeholder map returned is kept, with the image it was made
\* from and the estimator it was made on
RecordPlaceholder(d, image, depth_map) ==
    first_placeholder' =
        IF /\ first_placeholder = None
           /\ ~IsRaised(depth_map)
           /\ depth_map.variant = "placeholder"
        THEN [image |-> image, depth_map |-> depth_map, d |-> d]
        ELSE first_placeholder

\* a caller calls _normalize_depth on a raw map
NormalizeDepth ==
    /\ Idle
    /\ \E raw \in RawMaps :
        /\ result' = [values |-> _normalize_depth(raw)]
        /\ call' = [op |-> "_normalize_depth", depth |-> raw]
    /\ UNCHANGED <<orchestratorVars, environmentVars, mesh, first_placeholder, loads, singletonVars>>

\* a caller calls _placeholder_depth, on the estimator at hand or on a new one
PlaceholderDepth ==
    /\ Idle
    /\ \E image \in DepthImages, fresh \in BOOLEAN :
        LET d == IF fresh THEN DepthEstimator ELSE depth_estimator
        IN  /\ result' = _placeholder_depth(d, image)
            /\ call' = [op |-> "_placeholder_depth", image |-> image,
                        fresh |-> fresh]
            /\ RecordPlaceholder(d, image, _placeholder_depth(d, image))
    /\ UNCHANGED <<orchestratorVars, environmentVars, mesh, loads, singletonVars>>

\* a caller calls estimate(image) on the estimator at hand
Estimate ==
    /\ Idle
    /\ \E image \in DepthImages, de \in DepthOutcomesFor(depth_estimator) :
        LET r == estimate(depth_estimator, image, de)
        IN  /\ depth_estimator' = r.obj
            /\ result' = r.depth_map
            /\ call' = [op |-> "estimate", image |-> image, met |-> de,
                        before |-> depth_estimator]
            /\ RecordPlaceholder(r.obj, image, r.depth_map)
    /\ UNCHANGED <<use_triposr, _initialized, triposr_converter,
                   mesh_generator, files, environmentVars, mesh, loads, singletonVars>>

\* a caller calls DepthEstimator.initialize()
DepthInitialize ==
    /\ Idle
    /\ \E device \in BOOLEAN, midas \in BOOLEAN :
        LET r == DepthEstimator_initialize(depth_estimator, device, midas)
        IN  /\ depth_estimator' = r.obj
            /\ result' = [ret |-> r.ret]
            /\ call' = [op |-> "DepthEstimator.initialize",
                        device |-> device, midas |-> midas]
    /\ UNCHANGED <<use_triposr, _initialized, triposr_converter,
                   mesh_generator, files, environmentVars, mesh,
                   first_placeholder, loads, singletonVars>>

\* a caller calls DepthEstimator.cleanup()
DepthCleanup ==
    /\ Idle
    /\ depth_estimator' = DepthEstimator_cleanup(depth_estimator)
    /\ result' = None
    /\ call' = [op |-> "DepthEstimator.cleanup"]
    /\ UNCHANGED <<use_triposr, _initialized, triposr_converter,
                   mesh_generator, files, environmentVars, mesh,
                   first_placeholder, loads, singletonVars>>

\* the state after DepthEstimator()
DepthInit ==
    /\ use_triposr = TwoDToThreeDConverter.use_triposr
    /\ _initialized = TwoDToThreeDConverter._initialized
    /\ triposr_converter = None
    /\ depth_estimator = DepthEstimator
    /\ mesh_generator = None
    /\ OPEN3D_AVAILABLE = FALSE
    /\ TRIMESH_AVAILABLE = TRUE
    /\ files = {}
    /\ input_image = [readable |-> FALSE, width |-> 0, height |-> 0,
                      pixels |-> Solid(0)]
    /\ job_format = "obj"
    /\ result = None
    /\ call = [op |-> "none"]
    /\ mesh = None
    /\ first_placeholder = None
    /\ loads = NoLoads
    /\ NoRequests

DepthNext ==
    \/ NormalizeDepth
    \/ PlaceholderDepth
    \/ Estimate
    \/ DepthInitialize
    \/ DepthCleanup
    \/ Return

DepthSpec == DepthInit /\ [][DepthNext]_vars

-----------------------------------------------------------------------------
(* Properties of the orchestrator, checked under Spec.                      *)

\* a convert call has just returned
Converted == call.op = "convert"

\* the error string mentions the words tok
Mentions(error, tok) == \E k \in DOMAIN error : error[k] = tok

\* the convert call that just returned wrote no file
NothingWritten == files = call.files_before

\* C1: convert is total. In every orchestrator state and whatever step
\* fails, the call hands back a result value, and a result that reports
\* failure (success = false) carries a non-empty error string.
C1_ConvertTotalNonEmptyError ==
    Converted =>
        /\ ~IsRaised(result)
        /\ "success" \in DOMAIN result
        /\ (~result.success =>
               "error" \in DOMAIN result /\ result.error # <<>>)

\* C2 as claimed: a convert call whose input_path does not exist returns
\* success = false with an error that mentions 'not found' and writes no
\* file, whatever the initialization state and the outcome of lazy
\* initialization.
C2_MissingInputAlwaysNotFound ==
    (Converted /\ call.req.input_path \notin call.files_before) =>
        /\ ~result.success
        /\ Mentions(result.error, "not found")
        /\ NothingWritten

\* the convert call that just returned ran lazy initialization and it failed
LazyInitFailed ==
    Converted /\ "initialize" \in call.steps /\ ~_initialized

\* C2 as amended: a convert call whose input_path does not exist returns
\* success = false and writes no file; its error mentions 'not found' when
\* the orchestrator was initialized or lazy initialization succeeded, and is
\* 'Failed to initialize converter' when lazy initialization failed.
C2_MissingInputFails ==
    (Converted /\ call.req.input_path \notin call.files_before) =>
        /\ ~result.success
        /\ NothingWritten
        /\ IF LazyInitFailed
           THEN result.error = <<"Failed to initialize converter">>
           ELSE Mentions(result.error, "not found")

\* C2 witness: a call on an uninitialized orchestrator with a missing input
\* initialized lazily and then reported 'not found'
C2_Witness ==
    /\ Converted
    /\ call.req.input_path \notin call.files_before
    /\ "initialize" \in call.steps
    /\ _initialized
    /\ Mentions(result.error, "not found")

\* an initialize() call has just returned
Initialized == call.op = "initialize"

\* the initialize() call that just returned tried to load the neural backend
NeuralAttempted == "triposr_init" \in call.steps

\* the initialize() call that just returned entered the depth-based set-up
DepthSetUp == "depth_setup" \in call.steps

\* C3 as claimed: initialize() attempts the neural backend first; if and
\* only if that attempt fails it sets up the depth-based backend; in both
\* cases the orchestrator ends initialized and use_triposr records the
\* active strategy.
C3_NeuralAlwaysAttemptedFirst ==
    Initialized =>
        /\ NeuralAttempted
        /\ (DepthSetUp <=> call.met.neural # "ok")
        /\ _initialized
        /\ (use_triposr <=> ~DepthSetUp)

\* a constructor raised in the initialize() call that just returned
ConstructorRaised ==
    \/ call.before.use_triposr /\ call.met.ctor = "triposr"
    \/ DepthSetUp /\ call.met.ctor \in {"estimator", "generator"}

\* C3 as amended: initialize() attempts the neural backend first exactly
\* when use_triposr is true on entry; it sets up the depth-based backend if
\* and only if use_triposr was already false or the neural attempt failed;
\* unless a backend constructor raises it returns True and the orchestrator
\* ends initialized, use_triposr true with the neural backend loaded or false
\* with depth estimator and mesh generator in place; when a constructor
\* raises it returns False.
C3_InitializeStrategy ==
    Initialized =>
        LET neuralOk == NeuralAttempted /\ triposr_converter._initialized
        IN  /\ (call.before.use_triposr <=> "triposr_new" \in call.steps)
            /\ (NeuralAttempted =>
                   call.before.use_triposr /\ triposr_converter # None)
            /\ (DepthSetUp <=>
                   \/ ~call.before.use_triposr
                   \/ NeuralAttempted /\ ~neuralOk)
            /\ (result.ret <=> ~ConstructorRaised)
            /\ (result.ret =>
                   /\ _initialized
                   /\ (use_triposr <=> neuralOk)
                   /\ (~use_triposr =>
                          depth_estimator # None /\ mesh_generator # None))

\* C3 witness: the neural attempt failed and initialize() fell back to the
\* depth-based backend
C3_Witness ==
    /\ Initialized
    /\ NeuralAttempted
    /\ DepthSetUp
    /\ result.ret
    /\ _initialized
    /\ ~use_triposr

\* in the call that just returned neither backend could be set up
NeitherSetUp ==
    /\ call.op \in {"initialize", "convert"}
    /\ LET ie == IF Converted THEN call.met.init ELSE call.met
       IN  \/ call.before.use_triposr /\ ie.ctor = "triposr"
           \/ /\ call.before.use_triposr => ie.neural # "ok"
              /\ ie.ctor \in {"estimator", "generator"}

\* C4: if neither backend can be set up, initialize() returns False and an
\* uninitialized orchestrator stays uninitialized, and a convert call made
\* on it in that condition returns the initialization error before it loads
\* the image or writes a file.
C4_BothBackendsFail ==
    /\ (Initialized /\ NeitherSetUp) =>
           /\ ~result.ret
           /\ (~call.before._initialized => ~_initialized)
    /\ (Converted /\ ~call.before._initialized /\ NeitherSetUp) =>
           /\ result = Failure(<<"Failed to initialize converter">>)
           /\ ~_initialized
           /\ "load_image" \notin call.steps
           /\ NothingWritten

\* C4 witness: a convert call tried the neural backend, then the depth-based
\* one, could set up neither and reported the initialization error
C4_Witness ==
    /\ Converted
    /\ ~call.before._initialized
    /\ NeitherSetUp
    /\ NeuralAttempted
    /\ DepthSetUp
    /\ result = Failure(<<"Failed to initialize converter">>)

\* the convert call that just returned ran the neural backend and it failed
NeuralRunFailed ==
    Converted /\ "triposr_convert" \in call.steps /\ ~result.success

\* the steps of the depth-based branch
DepthSteps == {"estimate", "generate", "export"}

\* C5 as claimed: when the neural backend's convert fails during a request,
\* the call returns success = false and reports the failure with the
\* attempted method, runs no step of the depth-based branch, and the active
\* strategy is still neural afterwards.
C5_NeuralFailureNamesMethod ==
    NeuralRunFailed =>
        /\ "method" \in DOMAIN result
        /\ call.steps \cap DepthSteps = {}
        /\ use_triposr

\* C5 as amended: when the neural backend's convert fails during a request,
\* the call returns success = false with the neural backend's own error
\* string and no method tag, runs no step of the depth-based branch, and the
\* active strategy is still neural afterwards.
C5_NeuralFailureNoFallback ==
    NeuralRunFailed =>
        /\ DOMAIN result = {"success", "error"}
        /\ result.error = call.met.run.msg
        /\ call.steps \cap DepthSteps = {}
        /\ use_triposr
        /\ _initialized

\* C5 witness: the orchestrator was neural-ready before the call, the neural
\* run failed, and the orchestrator is neural-ready after it
C5_Witness ==
    /\ NeuralRunFailed
    /\ call.before._initialized
    /\ call.before.use_triposr
    /\ use_triposr
    /\ result.error # <<>>

\* C6: a convert call that returns success = true names as output_path
\* '<output_path>.<output_format>', and a file exists at exactly that path.
C6_OutputFileAtReportedPath ==
    (Converted /\ result.success) =>
        /\ result.output_path
               = WithExt(call.req.output_path, call.req.output_format)
        /\ result.output_path \in files

\* a generate() call has just returned
Generated == call.op = "generate"

\* C7: for every non-empty point cloud, if the most capable available rung
\* (open3d, or trimesh when open3d is absent) fails, generate still returns
\* a non-null mesh, built by the placeholder rung below it over the same
\* points; the rung failure does not reach the caller.
C7_GracefulDegradation ==
    (Generated /\ call.n >= 1 /\ ~call.lib.ok) =>
        /\ mesh # None
        /\ ~IsRaised(mesh)
        /\ mesh.library = "placeholder"
        /\ mesh.library # call.top
        /\ mesh.vertex_count = call.n

\* C7 witness: open3d was the top rung, it failed, and generate returned the
\* placeholder mesh
C7_Witness ==
    /\ Generated
    /\ call.top = "open3d"
    /\ ~call.lib.ok
    /\ mesh # None
    /\ mesh.library = "placeholder"

\* C8: every convert call that returns success = true reports
\* vertex_count > 0 and face_count > 0, for every image size the preprocessor
\* can produce, images of fewer than 4 pixels included.
C8_SuccessHasVerticesAndFaces ==
    (Converted /\ result.success) =>
        /\ result.metadata.vertex_count > 0
        /\ result.metadata.face_count > 0

\* every index of every face is a vertex index of a cloud of n points
ValidFaces(faces, n) ==
    \A k \in DOMAIN faces :
        /\ Len(faces[k]) = 3
        /\ \A m \in 1..3 : faces[k][m] \in 0..(n - 1)

\* a mesh rung, or generate, has just returned a mesh
MeshBuilt ==
    /\ call.op \in {"_create_placeholder_mesh", "_create_mesh_trimesh",
                    "_create_mesh_open3d", "generate"}
    /\ mesh # None
    /\ ~IsRaised(mesh)

\* C9: for every point cloud of N >= 1 points, every face the grid
\* triangulation produces, on the placeholder rung and on the trimesh rung,
\* is a triple of indices each in 0..N-1.
C9_FaceIndicesValid ==
    (MeshBuilt /\ call.n >= 1) =>
        /\ mesh.library = "placeholder" => ValidFaces(mesh.faces, call.n)
        /\ mesh.library = "trimesh" =>
               ValidFaces(mesh.mesh_object.faces, call.n)

\* C9 witness: the trimesh rung triangulated a cloud of 7 points, a count
\* that is no full grid, and the last face reaches index 5
C9_Witness ==
    /\ call.op = "_create_mesh_trimesh"
    /\ call.n = 7
    /\ mesh.library = "trimesh"
    /\ Len(mesh.mesh_object.faces) = 4
    /\ mesh.mesh_object.faces[4] = <<2, 5, 4>>

\* C10: for a depth map of width W and height H (W, H >= 2, square or not)
\* processed on the placeholder rung, the mesh has vertex_count = W*H and
\* face_count = 2*(W-1)*(H-1).
C10_PlaceholderGridCounts ==
    (/\ Generated
     /\ mesh # None
     /\ mesh.library = "placeholder"
     /\ call.width >= 2
     /\ call.height >= 2) =>
        /\ mesh.vertex_count = call.width * call.height
        /\ mesh.face_count = 2 * (call.width - 1) * (call.height - 1)

\* the quotient num / den lies in [0, 1]
InUnit(v) == v.den > 0 /\ 0 <= v.num /\ v.num <= v.den

\* a depth map has just been returned by the estimator
DepthMapReturned ==
    call.op \in {"_placeholder_depth", "estimate"} /\ ~IsRaised(result)

\* C11: every depth map DepthEstimator returns, neural or placeholder, has
\* all values in [0, 1] after _normalize_depth; when max > min the minimum
\* maps to 0 and the maximum to 1, and when max = min the output is all
\* zeros with no division by zero, so a constant-luminance image still gets
\* a result.
C11_DepthNormalized ==
    /\ call.op = "_normalize_depth" =>
           /\ DOMAIN result.values = DOMAIN call.depth
           /\ \A k \in DOMAIN call.depth : InUnit(result.values[k])
           /\ IF DepthMax(call.depth) > DepthMin(call.depth)
              THEN \A k \in DOMAIN call.depth :
                       /\ call.depth[k] = DepthMin(call.depth)
                              => result.values[k].num = 0
                       /\ call.depth[k] = DepthMax(call.depth)
                              => result.values[k].num = result.values[k].den
              ELSE \A k \in DOMAIN call.depth : result.values[k].num = 0
    /\ call.op = "_placeholder_depth" => ~IsRaised(result)
    /\ DepthMapReturned =>
           /\ Len(result.values) = call.image.width * call.image.height
           /\ \A k \in DOMAIN result.values : InUnit(result.values[k])

\* C11 witness: the placeholder map of a one-row image of one colour, where
\* max = min, is all zeros
C11_Witness ==
    /\ call.op = "_placeholder_depth"
    /\ call.image.height = 1
    /\ call.image.width = 3
    /\ call.image.pixels = Pixels(<<255, 255, 255>>)
    /\ ~IsRaised(result)
    /\ \A k \in 1..3 : result.values[k] = [num |-> 0, den |-> 1]

C13_PointCloudSize ==
    call.op = "_depth_to_pointcloud" =>
        /\ ~IsRaised(mesh)
        /\ mesh.points = call.width * call.height
        /\ mesh.colors = call.width * call.height
        /\ mesh.columns = <<3, 3>>

\* C13 witness: a 1x2 image and a 3x2 depth map give 6 points and 6 colors
C13_Witness ==
    /\ call.op = "_depth_to_pointcloud"
    /\ call.image_width = 1
    /\ call.image_height = 2
    /\ call.width = 3
    /\ call.height = 2
    /\ ~IsRaised(mesh)
    /\ mesh.points = 6
    /\ mesh.colors = 6

\* the larger of two numbers
Larger(a, b) == IF a >= b THEN a ELSE b

\* the smaller of two numbers
Smaller(a, b) == IF a <= b THEN a ELSE b

\* the marching-cubes resolution the claim gives for a quality
ClaimedMeshResolution(quality) ==
    CASE quality = "low"    -> 128
      [] quality = "medium" -> 256
      [] quality = "high"   -> 512

\* the resize bound the claim gives for a quality
ClaimedResizeBound(quality) ==
    CASE quality = "low"    -> 256
      [] quality = "medium" -> 512
      [] quality = "high"   -> 1024

\* C14: quality selects the marching-cubes resolution low -> 128,
\* medium -> 256, high -> 512 and the preprocessing resize bound low -> 256,
\* medium -> 512, high -> 1024, both non-decreasing along low < medium <
\* high, and get_supported_formats reports the resize bounds that
\* _load_image applies.
C14_QualityMappings ==
    /\ (Converted /\ "triposr_convert" \in call.steps /\ result.success) =>
           result.metadata.mc_resolution
               = ClaimedMeshResolution(call.req.quality)
    /\ (call.op = "_load_image" /\ call.readable) =>
           /\ result # None
           /\ Larger(result.width, result.height)
                  = Smaller(Larger(call.width, call.height),
                            ClaimedResizeBound(call.quality))
           /\ Larger(result.width, result.height)
                  = Smaller(Larger(call.width, call.height),
                            get_supported_formats
                                .quality_levels[call.quality].resolution)
    /\ call.op = "get_supported_formats" =>
           /\ \A q \in Qualities :
                  result.quality_levels[q].resolution = ClaimedResizeBound(q)
           /\ result.quality_levels.low.resolution
                  <= result.quality_levels.medium.resolution
           /\ result.quality_levels.medium.resolution
                  <= result.quality_levels.high.resolution
    /\ \A q \in Qualities :
           /\ mc_resolution("low") <= mc_resolution(q)
           /\ mc_resolution(q) <= mc_resolution("high")
           /\ target_resolution("low") <= target_resolution(q)
           /\ target_resolution(q) <= target_resolution("high")

\* C14 witness: a 1100x600 file loaded at quality medium comes back with its
\* larger side at the bound 512
C14_Witness ==
    /\ call.op = "_load_image"
    /\ call.quality = "medium"
    /\ call.width = 1100
    /\ call.height = 600
    /\ result # None
    /\ result.width = 512

\* the convert call that just returned went through the neural branch and
\* succeeded
NeuralSucceeded ==
    Converted /\ "triposr_convert" \in call.steps /\ result.success

\* C15 as claimed: when the neural branch succeeds, metadata.resolution is
\* the marching-cubes resolution that quality selected (512 for high), and
\* the output file is at '<output_path>.<output_format>'.
C15_NeuralMetadataResolution ==
    NeuralSucceeded =>
        /\ "resolution" \in DOMAIN result.metadata
        /\ result.metadata.resolution
               = ClaimedMeshResolution(call.req.quality)
        /\ WithExt(call.req.output_path, call.req.output_format) \in files

\* C15 as amended: when the neural branch succeeds, the result's metadata
\* records under the key mc_resolution (there is no key resolution) the
\* marching-cubes resolution that quality selected, 512 for high, and the
\* output file is at '<output_path>.<output_format>', the path the result
\* names.
C15_NeuralMetadataMcResolution ==
    NeuralSucceeded =>
        /\ "resolution" \notin DOMAIN result.metadata
        /\ result.metadata.mc_resolution
               = ClaimedMeshResolution(call.req.quality)
        /\ result.output_path
               = WithExt(call.req.output_path, call.req.output_format)
        /\ result.output_path \in files

\* C15 witness: a neural conversion at quality high succeeded with
\* mc_resolution 512 and its file on disk
C15_Witness ==
    /\ NeuralSucceeded
    /\ call.req.quality = "high"
    /\ result.metadata.mc_resolution = 512
    /\ result.output_path \in files
    /\ result.output_path \notin call.files_before

\* _export_placeholder has just written a file
PlaceholderExported == call.op = "_export_placeholder" /\ result.ret

\* the count a header comment of an OBJ text gives under a label
HeaderCount(lines, label) ==
    LET c == LinesOfKind(lines, "#")
    IN  (CHOOSE k \in DOMAIN c : c[k].label = label)

\* C16: OBJ round trip: for every placeholder mesh with V vertices and F
\* faces, the file _export_placeholder writes has exactly V lines starting
\* with 'v ' and F lines starting with 'f ', so that re-parsing it gives the
\* same vertex and face counts (and the same faces), and the counts of the
\* header comment are V and F.
C16_ObjRoundTrip ==
    PlaceholderExported =>
        LET parsed == ParseObj(call.content)
            header == LinesOfKind(call.content, "#")
        IN  /\ parsed.vertex_count = call.mesh.vertex_count
            /\ parsed.vertex_count = call.n
            /\ parsed.face_count = call.mesh.face_count
            /\ parsed.face_count = Len(call.mesh.faces)
            /\ parsed.faces = call.mesh.faces
            /\ header[HeaderCount(call.content, "Vertices")].count = call.n
            /\ header[HeaderCount(call.content, "Faces")].count
                   = Len(call.mesh.faces)

\* C16 witness: a placeholder mesh of 6 vertices and 4 faces was written and
\* read back with those counts
C16_Witness ==
    /\ PlaceholderExported
    /\ call.n = 6
    /\ call.mesh.face_count = 4
    /\ ParseObj(call.content).vertex_count = 6
    /\ ParseObj(call.content).face_count = 4
    /\ call.written \subseteq files

\* a cleanup() call has just returned
Cleaned == call.op = "cleanup"

\* a backend object holds no model and is not initialized
Released(backend) ==
    backend # None => backend.model = None /\ ~backend._initialized

SetupSteps ==
    {"initialize", "triposr_new", "triposr_init", "triposr_load",
     "depth_setup", "midas_load"}

\* C18: in a series of convert calls on one orchestrator with no cleanup()
\* in between, each backend model is loaded at most once: the constructor
\* loads nothing, a convert call on an uninitialized orchestrator runs
\* initialize(), and once initialize() has succeeded no later convert call
\* runs it again, and neither the TripoSR weights nor the MiDaS weights are
\* loaded a second time
C18_ModelsLoadedOnce ==
    /\ loads.triposr <= 1
    /\ loads.midas <= 1
    /\ loads.initialize <= 1
    /\ (triposr_converter = None /\ depth_estimator = None) => loads = NoLoads
    /\ (Converted /\ ~call.before._initialized) => "initialize" \in call.steps
    /\ (Converted /\ call.before._initialized) =>
           /\ call.steps \cap (SetupSteps \ {"midas_load"}) = {}
           /\ "midas_load" \in call.steps =>
                  ~call.before.depth_estimator._initialized
    /\ (Converted /\ call.before._initialized /\ call.before.use_triposr) =>
           call.steps \cap SetupSteps = {}

\* a later convert call of the series reuses the TripoSR model the first
\* call loaded
C18_Witness ==
    /\ Converted
    /\ call.before._initialized
    /\ call.before.use_triposr
    /\ loads = [triposr |-> 1, midas |-> 0, initialize |-> 1]
    /\ "triposr_convert" \in call.steps
    /\ result.success

\* a ConversionService.convert call has returned
ServiceConverted == call.op = "service_convert"

\* the path f names a file of the output folder
InOutputFolder(f) ==
    /\ Len(f) > Len(OutputFolder)
    /\ SubSeq(f, 1, Len(OutputFolder)) = OutputFolder

\* the file name of the path f: what follows the output folder
FileName(f) == SubSeq(f, Len(OutputFolder) + 1, Len(f))

\* the file name of f is the job id followed by one extension
NamedAfterJob(f, job_id) ==
    /\ InOutputFolder(f)
    /\ Len(FileName(f)) = 2
    /\ FileName(f)[1] = job_id

\* C19: every file a successful ConversionService.convert wrote lies in the
\* output folder and has a name that begins with the job_id of the request,
\* whatever the output format and the export path; the PLY path open3d
\* substitutes for a GLB path keeps the folder and the job_id as well
C19_OutputFilesCarryJobId ==
    /\ (ServiceConverted /\ result.success) =>
           \A f \in call.written : NamedAfterJob(f, call.job_id)
    /\ \A job_id \in JobIds :
           \A f \in _export_open3d(WithExt(OutputPath(job_id), "glb"), "glb",
                                   FALSE, "written").written :
              NamedAfterJob(f, job_id) /\ FileName(f)[2] = ".ply"

\* a successful request whose mesh went through the placeholder export:
\* the GLB that was asked for is written as '<job_id>.obj'
C19_Witness ==
    /\ ServiceConverted
    /\ result.success
    /\ call.req.output_format = "glb"
    /\ call.written = {Append(OutputPath(call.job_id), ".obj")}
    /\ "export" \in call.steps

\* the branch of convert that ran a pipeline in the last call
NeuralRan == "triposr_convert" \in call.steps
DepthRan == "estimate" \in call.steps

\* the vertex and face counts of the mesh the last call produced: what the
\* TripoSR run or the mesh library handed back, or the grid the placeholder
\* rung built over the pixels of the image
ProducedCounts ==
    IF NeuralRan THEN <<call.met.run.v, call.met.run.f>>
    ELSE IF call.library = "placeholder"
    THEN <<input_image.width * input_image.height,
           Len(GridFaces(input_image.width * input_image.height))>>
    ELSE <<call.met.lib.v, call.met.lib.f>>

\* C20: every successful convert result carries the elapsed processing
\* time, the method tag of the branch that produced the mesh ('TripoSR' for
\* the neural branch, 'MiDaS' for the depth-based one) and the vertex_count
\* and face_count of that mesh; the tag is never that of a branch that did
\* not run
C20_SuccessCarriesTimeMethodCounts ==
    (Converted /\ result.success) =>
        /\ {"processing_time", "method", "metadata"} \subseteq DOMAIN result
        /\ result.processing_time = "elapsed"
        /\ NeuralRan # DepthRan
        /\ result.method = "TripoSR" <=> NeuralRan
        /\ result.method = "MiDaS" <=> DepthRan
        /\ {"vertex_count", "face_count"} \subseteq DOMAIN result.metadata
        /\ <<result.metadata.vertex_count, result.metadata.face_count>>
               = ProducedCounts

\* a call that tried to load TripoSR, fell back and produced its mesh on
\* the depth-based branch: the result is tagged MiDaS
C20_Witness ==
    /\ Converted
    /\ result.success
    /\ "triposr_init" \in call.steps
    /\ DepthRan
    /\ result.method = "MiDaS"
    /\ result.metadata.vertex_count = 8

\* a _load_image call on a readable image has returned
ImageLoaded == call.op = "_load_image" /\ call.readable

\* C21: for every readable image and every quality, _load_image returns an
\* RGB image whose larger dimension is at most the resize bound of the
\* quality (256, 512 or 1024) and whose width and height are not larger
\* than the source image's (no upscaling)
C21_LoadImageBounded ==
    ImageLoaded =>
        /\ result # None
        /\ result.mode = "RGB"
        /\ Larger(result.width, result.height)
               <= ClaimedResizeBound(call.quality)
        /\ result.width <= call.width
        /\ result.height <= call.height
        /\ result.width >= 1
        /\ result.height >= 1

\* a 200x256 file loaded at quality high, whose bound is 1024, keeps its
\* size
C21_Witness ==
    /\ ImageLoaded
    /\ call.quality = "high"
    /\ call.width = 200
    /\ call.height = 256
    /\ result = [width |-> 200, height |-> 256, mode |-> "RGB"]

\* an estimate call has returned
Estimated == call.op = "estimate"

\* the cases in which the last estimate call had no neural prediction to
\* return: no model is loaded after the lazy initialization, the
\* initialization failed, or the model raised during inference
PlaceholderCase ==
    /\ Estimated
    /\ \/ depth_estimator.model = None
       \/ ~depth_estimator._initialized
       \/ ~call.met.infer

TriedWithin(r, k) == \E j \in 1..k : call.rungs[j] = r

\* C23 as claimed: the rungs are tried in order without skipping: when the
\* open3d rung fails and trimesh is available, the trimesh rung is run next,
\* and the placeholder rung runs only after the trimesh rung was
\* unavailable or has failed.
C23_LadderInOrder ==
    Generated =>
        \A k \in 1..Len(call.rungs) :
            call.rungs[k] = "placeholder" =>
                \/ ~TRIMESH_AVAILABLE
                \/ TriedWithin("trimesh", k - 1)

\* the faces of a mesh the grid triangulation built, as a set
FaceSet(mesh_data) ==
    LET faces == IF mesh_data.library = "placeholder" THEN mesh_data.faces
                 ELSE mesh_data.mesh_object.faces
    IN  {faces[k] : k \in DOMAIN faces}

\* the triangles the claim gives for a depth map of width W and height H,
\* point (i, j) having the index i*W + j
ClaimedTriangles(W, H) ==
    UNION {{<<i * W + j, i * W + j + 1, (i + 1) * W + j>>,
            <<i * W + j + 1, (i + 1) * W + j + 1, (i + 1) * W + j>>} :
           i \in 0..(H - 2), j \in 0..(W - 2)}

\* the points p and q are the same pixel or neighbours in a depth map of
\* width W: at most one row and one column apart
Neighbours(p, q, W) ==
    LET d(a, b) == IF a >= b THEN a - b ELSE b - a
    IN  /\ d(p \div W, q \div W) <= 1
        /\ d(p % W, q % W) <= 1

\* C24 as claimed: for a depth map of width W and height H, square or not,
\* the grid triangulation emits for every 2x2 pixel quad exactly the
\* triangles (i,j),(i,j+1),(i+1,j) and (i,j+1),(i+1,j+1),(i+1,j), so every
\* face joins three pixels that are neighbours in the depth map and no face
\* wraps from the end of one row to the start of the next.
C24_GridTriangulation ==
    (Generated /\ MeshBuilt /\ mesh.library \in {"placeholder", "trimesh"}) =>
        /\ FaceSet(mesh) = ClaimedTriangles(call.width, call.height)
        /\ \A f \in FaceSet(mesh) :
               \A a \in 1..3, b \in 1..3 :
                   Neighbours(f[a], f[b], call.width)

\* the last call was a convert call that started on an initialized
\* orchestrator
ConvertedWhenReady == Converted /\ call.before._initialized

\* C25: a convert call that starts on an initialized orchestrator leaves the
\* orchestrator as it was, whether it succeeds or fails: _initialized is
\* still true, use_triposr has the same value, no backend is constructed or
\* dropped, and the only field of a held backend that changes is the model
\* the depth estimator loads on its first estimate
C25_ConvertKeepsReadyState ==
    ConvertedWhenReady =>
        /\ _initialized
        /\ use_triposr = call.before.use_triposr
        /\ call.steps \cap {"initialize", "triposr_new", "depth_setup"} = {}
        /\ triposr_converter = call.before.triposr_converter
        /\ mesh_generator = call.before.mesh_generator
        /\ depth_estimator = None <=> call.before.depth_estimator = None
        /\ (call.before.depth_estimator # None
            /\ call.before.depth_estimator._initialized) =>
               depth_estimator = call.before.depth_estimator

\* a conversion on the depth strategy failed with the exception the
\* placeholder depth raised, and the orchestrator is as it was before
C25_Witness ==
    /\ ConvertedWhenReady
    /\ ~call.before.use_triposr
    /\ call.before.depth_estimator._initialized
    /\ ~call.met.depth.placeholder
    /\ ~result.success
    /\ Orchestrator = call.before

\* the orchestrator's convert, run by the last service call, deleted no
\* file and wrote no file at the input path
InputUntouchedByConvert ==
    /\ call.files_before \subseteq call.converted
    /\ call.req.input_path \notin call.written

\* the last service call found its input file on disk
ServedExistingInput ==
    ServiceConverted /\ call.req.input_path \in call.files_before

\* C26 as claimed: convert never deletes or modifies the input file, on
\* success or on failure; ConversionService.convert removes the input file
\* exactly when the conversion returned success=true and leaves it in place
\* otherwise.
C26_InputRemovedIffSuccess ==
    ServedExistingInput =>
        /\ InputUntouchedByConvert
        /\ call.req.input_path \notin files <=> result.success

\* C26 as amended: convert never deletes or modifies the input file, on
\* success or on failure; ConversionService.convert calls os.remove on the
\* input file exactly when the conversion returned success=true: the file
\* is gone when the removal goes through and stays when os.remove raises
\* (the exception is logged and ignored), and after a failed conversion the
\* file is always left in place.
C26_InputRemovalAttempted ==
    ServedExistingInput =>
        /\ InputUntouchedByConvert
        /\ ~result.success => call.req.input_path \in files
        /\ result.success =>
               (call.req.input_path \notin files <=> call.removed)
        /\ files \ {call.req.input_path}
               = call.converted \ {call.req.input_path}

\* a successful request after which the input file is gone while the
\* output file is on disk
C26_Witness ==
    /\ ServedExistingInput
    /\ result.success
    /\ call.removed
    /\ call.req.input_path \notin files
    /\ call.written # {}
    /\ call.written \subseteq files

\* C27: with two conversion requests running concurrently against the shared
\* singleton, starting from no converter instance, get_converter constructs
\* at most one TwoDToThreeDConverter and the neural model is loaded at most
\* once, in every interleaving
C27_SingletonUnderConcurrency ==
    /\ Len(instances) <= 1
    /\ loads.triposr <= 1

\* the errors of a convert call that reached for a backend that was None
MissingBackendErrors ==
    {<<"'NoneType' object has no attribute 'estimate'">>,
     <<"'NoneType' object has no attribute 'generate'">>}

\* C28: after any sequence of initialize, convert and cleanup calls, whenever
\* _initialized is true the backends of the active strategy exist: either
\* use_triposr is true and triposr_converter is set, or use_triposr is false
\* and both depth_estimator and mesh_generator are set; so no convert call
\* fails on a missing depth_estimator or mesh_generator
C28_ActiveBackendsExist ==
    /\ _initialized =>
           \/ use_triposr /\ triposr_converter # None
           \/ ~use_triposr /\ depth_estimator # None /\ mesh_generator # None
    /\ (Converted /\ ~result.success) => result.error \notin MissingBackendErrors

\* the steps of a call that construct, load or run the neural backend
NeuralSteps == {"triposr_new", "triposr_init", "triposr_load",
                "triposr_convert"}

\* C29: demotion to the depth-based strategy is permanent for an orchestrator
\* instance: once use_triposr is false, no convert, initialize or cleanup
\* call sets it back to true, and no later call constructs, loads or runs the
\* neural backend, even after cleanup() and re-initialization
C29_DemotionPermanent ==
    [][~use_triposr =>
          /\ ~use_triposr'
          /\ (call'.op \in {"initialize", "convert"} =>
                 call'.steps \cap NeuralSteps = {})]_vars

\* a demoted orchestrator that was set up for the depth-based strategy and
\* cleaned up has been initialized again: the call went straight to the
\* depth set-up
C29_Witness ==
    /\ Initialized
    /\ ~call.before.use_triposr
    /\ ~call.before._initialized
    /\ call.before.triposr_converter # None
    /\ call.before.mesh_generator # None
    /\ DepthSetUp
    /\ ~NeuralAttempted
    /\ result.ret
    /\ ~use_triposr

\* C30: the method tag the conversion route records for persistence
\* (settings.method) equals the method tag of the strategy that produced the
\* mesh in TwoDToThreeDConverter.convert, for the neural ('TripoSR') and the
\* depth-based ('MiDaS') branch, after the result has passed through
\* ConversionService.convert
C30_RecordedMethodIsProducer ==
    (ServiceConverted /\ result.success) =>
        /\ call.produced \in {"TripoSR", "MiDaS"}
        /\ call.settings.method = call.produced

====
